---- MODULE Spec2Model ----
(***************************************************************************)
(* Model of the detector-orchestration and adaptive-learning pipeline of    *)
(* cgi-detection-photos:                                                    *)
(*   - forensics/engine.py        run_analysis, reload_ml_model             *)
(*   - forensics/ml_predictor.py  extract_features_from_image_bytes,        *)
(*                                feedback store, retraining, model manager *)
(*   - main.py                    the /report feedback handler              *)
(*   - scripts/train_model.py     the resumable batch feature extraction    *)
(*                                                                         *)
(* The specifications share the module, one per subsystem:                  *)
(*   SpecAnalysis  one run of run_analysis / extract_features_...           *)
(*   SpecModel     model files, in-memory model, feedback, retraining       *)
(*   SpecBatch     run_feature_extraction with interruption and restart     *)
(*   SpecTrain     direct calls of train, retrain, reload and predict       *)
(*   SpecTwoRuns   two run_feature_extraction processes at the same time    *)
(*   SpecFeedbackStore  concurrent save_feedback_image_and_label calls      *)
(*   SpecPreprocess     the downsizing try block and the task submission    *)
(*   SpecClassify       classify_image, one loop pass at a time             *)
(*   SpecScan           the dataset scan and bookkeeping, real file names   *)
(*   SpecFutures        the detector tasks in the pool and their collection *)
(* Each leaves the variables of the others at their initial value.          *)
(***************************************************************************)
EXTENDS Integers, Sequences, FiniteSets, TLC

VARIABLES
    \* ---- one analysis run (engine.run_analysis or
    \*      ml_predictor.extract_features_from_image_bytes)
    pipeline,      \* "engine" | "extract": which of the two functions runs
    trainedBy,     \* what trained the model engine._ml_model holds
    pc,            \* "collect" | "assemble" | "predict" | "returned" | "raised"
    idx,           \* number of futures the collection loop has consumed
    results,       \* the local dict `results`: key -> stored value
    raisedTasks,   \* names of the futures whose .result() raised (the printed errors)
    features,      \* the list ml_features once built, NoVector before
    \* ---- the model manager, the feedback store and retraining
    modelFile,     \* MODEL_PATH (ml_model.joblib) on disk
    snapFile,      \* the training snapshot (ml_model_training_data.joblib) on disk
    fbStore,       \* FEEDBACK_DATASET_DIR: the label directory of each saved sample
    curModel,      \* ml_predictor._current_ml_model
    engModel,      \* engine._ml_model
    engineImported,\* forensics.engine has been imported (its line 10 has run)
    loadedOnce,    \* _current_ml_model has been assigned a model at least once
    svcPc,         \* position of the /report handler: "idle" | "reload"
    report,        \* the /report request being handled, or the last one handled
    lastOp,        \* the last operation the service process ran, with its outcome
    inflight,      \* what a reload_model call on another thread has loaded and not yet assigned
    scriptPc,      \* position of train_model.py's train_and_save_model
    \* ---- the batch extraction pipeline (scripts/train_model.py)
    manifest,      \* PROGRESS_FILE on disk: chunks and image_tracking
    featFile,      \* FEATURES_FILE on disk: rows and processed_filepaths
    bpc,           \* "idle" | "running" | "writing" | "saving": run_feature_extraction
    progress,      \* progress_data in memory: chunks and image_tracking
    loaded,        \* what the run read from FEATURES_FILE when it started
    tasks,         \* the files the run submitted for extraction
    pending,       \* submitted files whose result has not arrived yet
    newly,         \* processed_filepaths_this_run
    runErrors,     \* files whose result in this run was an error
    recorded,      \* files whose status "completed" has been written to the manifest
    lastRun,       \* how the last run ended, its errors, and how the run before ended
    \* ---- direct calls of the model manager (ml_predictor.py, engine.py)
    call,          \* the last call: its name, arguments, outcome and the state it found
    \* ---- two run_feature_extraction processes over the same files
    runs,          \* per process: its position and the locals of run_feature_extraction
    written,       \* the statuses and rows the two processes have written so far
    \* ---- the feedback directory under concurrent save_feedback_image_and_label calls
    fbFiles,       \* FEEDBACK_DATASET_DIR: path (label directory, name) -> the file there
    savers,        \* per request thread: its position in save_feedback_image_and_label
    saves,         \* number of save_feedback_image_and_label calls begun so far
    \* ---- preprocessing and submission (run_analysis, extract_features_from_image_bytes)
    image,         \* the uploaded bytes: what they decode to, if they do
    ppipe,         \* "engine" | "extract": which of the two functions runs
    ppc,           \* "try" | "submit" | "done"
    processed,     \* processed_image_bytes
    handed,        \* the bytes given to each executor.submit so far, in order
    \* ---- classify_image (run_dataset_tests.py)
    scores,        \* module name -> score in hundredths, or None
    groundTruth,   \* "real" | "fake"
    modulesRun,    \* the module names, in the order the loop visits them
    cpc,           \* "loop" | "done"
    ci,            \* position of the loop in modulesRun
    isFake,        \* is_fake
    verdict,       \* the pair classify_image returned
    \* ---- the dataset scan and bookkeeping of train_model.py, with real file names
    root,          \* DATASET_ROOT
    disk,          \* the files under DATASET_ROOT/REAL and DATASET_ROOT/FAKE
    changes,       \* number of files added to or removed from the dataset so far
    progressFile,  \* PROGRESS_FILE: chunks and image_tracking
    featuresFile,  \* FEATURES_FILE: one row (filepath, label) per extracted file
    scanned,       \* what the scan found: the files there and all_files before the sort
    xrun,          \* run_feature_extraction: its position and its locals
    \* ---- the detector tasks in the pool and the collection of their results
    upipe,         \* "engine" (run_analysis) | "extract" (extract_features_from_image_bytes)
    plan,          \* what the task of each detector will produce
    utask,         \* per detector task: "queued" | "running" | "returned" | "raised"
    overtaken,     \* a task has ended while one submitted before it was still running
    upc,           \* "collect" | "assemble" | "handed" | "raised"
    uidx,          \* number of futures the collection loop has been through
    ures,          \* results
    uvec           \* ml_features as handed to the classifier or to the caller

avars == <<pipeline, trainedBy, pc, idx, results, raisedTasks, features>>

mvars == <<modelFile, snapFile, fbStore, curModel, engModel, engineImported,
           loadedOnce, svcPc, report, lastOp, inflight, scriptPc>>

bvars == <<manifest, featFile, bpc, progress, loaded, tasks, pending, newly,
           runErrors, recorded, lastRun>>

tvars == <<call>>

rvars == <<runs, written>>

fvars == <<fbFiles, savers, saves>>

pvars == <<image, ppipe, ppc, processed, handed>>

cvars == <<scores, groundTruth, modulesRun, cpc, ci, isFake, verdict>>

svars == <<root, disk, changes, progressFile, featuresFile, scanned, xrun>>

uvars == <<upipe, plan, utask, overtaken, upc, uidx, ures, uvec>>

vars == <<pipeline, trainedBy, pc, idx, results, raisedTasks, features,
          modelFile, snapFile, fbStore, curModel, engModel, engineImported,
          loadedOnce, svcPc, report, lastOp, inflight, scriptPc,
          manifest, featFile, bpc, progress, loaded, tasks, pending, newly,
          runErrors, recorded, lastRun, call, runs, written, fbFiles, savers, saves,
          image, ppipe, ppc, processed, handed,
          scores, groundTruth, modulesRun, cpc, ci, isFake, verdict,
          root, disk, changes, progressFile, featuresFile, scanned, xrun,
          upipe, plan, utask, overtaken, upc, uidx, ures, uvec>>

(***************************************************************************)
(* Values.  A score is an integer standing for a float: 0 is 0.0 and the    *)
(* detector at position i of the submission order returns the score i, so   *)
(* that a score ending up in another detector's slot is visible.            *)
(***************************************************************************)
Float(x) == [kind |-> "float", v |-> x]
Dict(x)  == [kind |-> "dict", v |-> x]     \* a dict whose score field holds x
EmptyDict == [kind |-> "dict", v |-> 0]    \* {}: .get(field, 0.0) gives 0.0
NoVector == <<-1>>

\* dict.get(key, default)
Get(d, k, default) == IF k \in DOMAIN d THEN d[k] ELSE default

\* d[k] = val
Put(d, k, val) == [x \in (DOMAIN d) \cup {k} |-> IF x = k THEN val ELSE d[x]]

EmptyMap == [x \in {} |-> Float(0)]

\* 1-based position of x in the sequence s (0 when absent)
IndexOf(s, x) == IF \E i \in 1..Len(s) : s[i] = x
                 THEN CHOOSE i \in 1..Len(s) : s[i] = x
                 ELSE 0

(***************************************************************************)
(* The futures dict: keys in insertion order (dicts keep insertion order,   *)
(* and `for name, future in futures.items()` walks them in that order).     *)
(***************************************************************************)
EngineFutures ==
    <<"ela", "cfa", "hos", "jpeg_ghost", "jpeg_dimples", "geometric", "lighting",
      "specialized_detector", "deepfake", "reflection_inconsistency",
      "double_quantization", "rambino">>

ExtractFutures ==
    <<"ela", "cfa", "hos", "jpeg_ghost", "jpeg_dimples", "geometric", "lighting",
      "specialized_detector", "deepfake", "reflection_inconsistency",
      "double_quantization", "rambino", "watermark">>

Futures(p) == IF p = "engine" THEN EngineFutures ELSE ExtractFutures

\* The detectors whose result is a dict carrying a 'confidence' field.
ConfidenceDetectors == {"deepfake", "reflection_inconsistency", "double_quantization"}

\* The score detector `name` produces on this image.
Score(name) == IndexOf(ExtractFutures, name)

\* What the task of detector `name` returns when it does not raise.
TaskReturn(name) ==
    IF name \in ConfidenceDetectors \cup {"rambino", "specialized_detector"}
    THEN Dict(Score(name))        \* 'confidence' / 'score' / 'overall_score'
    ELSE Float(Score(name))

(***************************************************************************)
(* The collection loop body for one future: `outcome` is "ok" when          *)
(* future.result() returns and "raise" when it raises.                      *)
(***************************************************************************)
EngineCollect(res, name, outcome) ==
    IF name = "rambino"
    THEN Put(res, "rambino", IF outcome = "ok" THEN Float(TaskReturn(name).v) ELSE Float(0))
    ELSE IF name = "specialized_detector"
    THEN Put(res, "specialized", IF outcome = "ok" THEN Float(TaskReturn(name).v) ELSE Float(0))
    ELSE Put(res, name, IF outcome = "ok" THEN TaskReturn(name) ELSE Float(0))

ExtractCollect(res, name, outcome) ==
    IF outcome = "raise"
    THEN Put(res, name, Float(0))      \* the one except clause: results[name] = 0.0
    ELSE IF name = "rambino"
    THEN Put(res, "rambino", Float(TaskReturn(name).v))
    ELSE IF name = "specialized_detector"
    THEN Put(res, "specialized", Float(TaskReturn(name).v))
    ELSE Put(res, name, TaskReturn(name))

(***************************************************************************)
(* Feature assembly: the keys read, in the order of the list ml_features.   *)
(***************************************************************************)
EngineReadKeys ==
    <<"ela", "cfa", "hos", "jpeg_ghost", "jpeg_dimples", "rambino", "geometric",
      "lighting", "specialized", "deepfake", "reflection_inconsistency",
      "double_quantization">>

ExtractReadKeys ==
    <<"ela", "cfa", "hos", "jpeg_ghost", "jpeg_dimples", "rambino", "geometric",
      "lighting", "specialized", "deepfake", "reflection_inconsistency",
      "double_quantization", "watermark">>

ReadKeys(p) == IF p = "engine" THEN EngineReadKeys ELSE ExtractReadKeys

\* results.get(k, {}).get('confidence', 0.0) raises AttributeError when the
\* stored value is a float: a float has no attribute 'get'.
AssemblyRaises(res) ==
    \E k \in ConfidenceDetectors : Get(res, k, EmptyDict).kind = "float"

\* One element of ml_features.
FeatureAt(res, k) ==
    IF k \in ConfidenceDetectors THEN Get(res, k, EmptyDict).v
    ELSE Get(res, k, Float(0)).v

BuildFeatures(p, res) == [i \in 1..Len(ReadKeys(p)) |-> FeatureAt(res, ReadKeys(p)[i])]

(***************************************************************************)
(* The model engine._ml_model holds: the bootstrap model is fitted on       *)
(* np.random.rand(100, 12); train_model.py fits on the rows returned by     *)
(* extract_features_from_image_bytes.                                      *)
(***************************************************************************)
DummyWidth == 12

TrainedWidth(by) == IF by = "bootstrap" THEN DummyWidth ELSE Len(ExtractReadKeys)

\* A predict that takes a vector of any width.
PredictAcceptsAnyWidth(width, vec) == TRUE

\* model.predict(features_array) raises ValueError unless the vector has the
\* number of features the model was fitted on.
PredictAccepts(width, vec) == Len(vec) = width

(***************************************************************************)
(* One analysis run.                                                       *)
(***************************************************************************)
InitAnalysis ==
    /\ pipeline \in {"engine", "extract"}
    /\ trainedBy \in {"bootstrap", "train_model"}
    /\ pc = "collect"
    /\ idx = 0
    /\ results = EmptyMap
    /\ raisedTasks = {}
    /\ features = NoVector

\* One iteration of `for name, future in futures.items()`.
Collect ==
    /\ pc = "collect"
    /\ idx < Len(Futures(pipeline))
    /\ \E outcome \in {"ok", "raise"} :
         LET name == Futures(pipeline)[idx + 1] IN
         /\ results' = IF pipeline = "engine"
                       THEN EngineCollect(results, name, outcome)
                       ELSE ExtractCollect(results, name, outcome)
         /\ raisedTasks' = IF outcome = "raise" THEN raisedTasks \cup {name} ELSE raisedTasks
    /\ idx' = idx + 1
    /\ pc' = IF idx + 1 = Len(Futures(pipeline)) THEN "assemble" ELSE "collect"
    /\ UNCHANGED <<pipeline, trainedBy, features>>
    /\ UNCHANGED mvars
    /\ UNCHANGED bvars
    /\ UNCHANGED tvars
    /\ UNCHANGED rvars
    /\ UNCHANGED fvars
    /\ UNCHANGED pvars
    /\ UNCHANGED cvars
    /\ UNCHANGED svars
    /\ UNCHANGED uvars

\* results.get(...) for every score, then the list ml_features.
Assemble ==
    /\ pc = "assemble"
    /\ IF AssemblyRaises(results)
       THEN /\ pc' = "raised"
            /\ features' = features
       ELSE /\ features' = BuildFeatures(pipeline, results)
            /\ pc' = IF pipeline = "engine" THEN "predict" ELSE "returned"
    /\ UNCHANGED <<pipeline, trainedBy, idx, results, raisedTasks>>
    /\ UNCHANGED mvars
    /\ UNCHANGED bvars
    /\ UNCHANGED tvars
    /\ UNCHANGED rvars
    /\ UNCHANGED fvars
    /\ UNCHANGED pvars
    /\ UNCHANGED cvars
    /\ UNCHANGED svars
    /\ UNCHANGED uvars

\* ml_predictor.predict(_ml_model, ml_features) at the end of run_analysis.
PredictCall ==
    /\ pc = "predict"
    /\ pc' = IF PredictAccepts(TrainedWidth(trainedBy), features) THEN "returned" ELSE "raised"
    /\ UNCHANGED <<pipeline, trainedBy, idx, results, raisedTasks, features>>
    /\ UNCHANGED mvars
    /\ UNCHANGED bvars
    /\ UNCHANGED tvars
    /\ UNCHANGED rvars
    /\ UNCHANGED fvars
    /\ UNCHANGED pvars
    /\ UNCHANGED cvars
    /\ UNCHANGED svars
    /\ UNCHANGED uvars

NextAnalysis == Collect \/ Assemble \/ PredictCall

(***************************************************************************)
(* The model manager, the feedback store and retraining                     *)
(* (forensics/ml_predictor.py, forensics/engine.py, main.py).               *)
(*                                                                         *)
(* Training data is a record: the width of its feature rows, where its     *)
(* base rows came from, and the feedback rows it holds (sample id, label,   *)
(* number of copies).  A fitted model is identified with the data it was    *)
(* fitted on.  A file is absent, partly written, or complete.               *)
(***************************************************************************)
MaxFeedback == 2

FeedbackLabels == {"real", "cgi"}

NoData == [width |-> 0, base |-> "none", fb |-> {}]
NoModel == NoData

AbsentFile == [st |-> "absent", data |-> NoData]
PartialFile == [st |-> "partial", data |-> NoData]
OkFile(data) == [st |-> "ok", data |-> data]

\* np.random.rand(100, 12) with np.random.randint(0, 2, 100)
DummyData == [width |-> DummyWidth, base |-> "dummy", fb |-> {}]

\* The rows train_model.py hands to train_and_save_model: one per extracted
\* file, each as wide as the vector extract_features_from_image_bytes returns.
BatchData == [width |-> Len(ExtractReadKeys), base |-> "batch", fb |-> {}]

\* joblib.load(path): the object of a complete file; raises on a missing file
\* and on one whose pickle stream is cut short.
JoblibLoadRaises(file) == file.st # "ok"

\* _get_base_training_data
BaseTrainingData(snap) ==
    IF snap.st = "absent" THEN DummyData
    ELSE IF JoblibLoadRaises(snap) THEN DummyData     \* "starting fresh"
    ELSE snap.data

\* 1 if label_dir_name == 'cgi' else 0
LabelOf(dir) == IF dir = "cgi" THEN 1 ELSE 0

\* load_feedback_data: one row per stored sample; a sample whose feature
\* extraction raises (the ids in `failed`) is printed and left out.
LoadFeedbackData(store, failed) ==
    {[id |-> i, label |-> LabelOf(store[i])] : i \in (1..Len(store)) \ failed}

CopiesOf(fb, i) == IF \E r \in fb : r.id = i
                   THEN (CHOOSE r \in fb : r.id = i).copies
                   ELSE 0

\* The feedback rows of np.vstack((base_features, feedback_features)).
AppendRows(fb, rows) ==
    {[id |-> r.id, label |-> r.label, copies |-> CopiesOf(fb, r.id) + 1] : r \in rows}
    \cup {r \in fb : ~ \E q \in rows : q.id = r.id}

\* np.vstack raises ValueError when the two matrices differ in width.
VstackRaises(base, rows) == rows # {} /\ base.width # Len(ExtractReadKeys)

CombinedData(base, rows) ==
    IF rows = {} THEN base
    ELSE [width |-> base.width, base |-> base.base, fb |-> AppendRows(base.fb, rows)]

\* retrain_with_feedback, train_and_save_model included: the model file and
\* the snapshot as they are left, and whether the call raised.
RetrainWithFeedback(mf, sf, store, failed) ==
    LET base == BaseTrainingData(sf)
        rows == LoadFeedbackData(store, failed)
    IN  IF VstackRaises(base, rows)
        THEN [raised |-> TRUE, model |-> mf, snap |-> sf]
        ELSE [raised |-> FALSE,
              model |-> OkFile(CombinedData(base, rows)),
              snap |-> OkFile(CombinedData(base, rows))]

\* load_model: retrains when MODEL_PATH does not exist, then loads the file
\* unless a model is loaded already and the file exists.
LoadModel(cur, mf, sf, store, failed) ==
    IF cur = NoModel \/ mf.st = "absent"
    THEN LET boot == mf.st = "absent"
             r == IF boot THEN RetrainWithFeedback(mf, sf, store, failed)
                  ELSE [raised |-> FALSE, model |-> mf, snap |-> sf]
         IN  IF r.raised \/ JoblibLoadRaises(r.model)
             THEN [raised |-> TRUE, cur |-> cur, model |-> r.model, snap |-> r.snap,
                   bootstrap |-> boot]
             ELSE [raised |-> FALSE, cur |-> r.model.data, model |-> r.model,
                   snap |-> r.snap, bootstrap |-> boot]
    ELSE [raised |-> FALSE, cur |-> cur, model |-> mf, snap |-> sf, bootstrap |-> FALSE]

\* get_model: load_model() when nothing is loaded.
GetModel(cur, mf, sf, store, failed) ==
    IF cur = NoModel THEN LoadModel(cur, mf, sf, store, failed)
    ELSE [raised |-> FALSE, cur |-> cur, model |-> mf, snap |-> sf, bootstrap |-> FALSE]

\* reload_model with the global dropped before the load: a failed load leaves
\* no model behind.
ReloadModelClearsFirst(cur, mf) ==
    IF JoblibLoadRaises(mf) THEN [raised |-> TRUE, cur |-> NoModel]
    ELSE [raised |-> FALSE, cur |-> mf.data]

\* reload_model: _current_ml_model = joblib.load(MODEL_PATH).  The global is
\* assigned only after the load has returned.
ReloadModel(cur, mf) ==
    IF JoblibLoadRaises(mf) THEN [raised |-> TRUE, cur |-> cur]
    ELSE [raised |-> FALSE, cur |-> mf.data]

NoReport == [id |-> 0, label |-> "none", retrain |-> "none", reload |-> "none",
             response |-> "none", snap |-> NoData]

Op(name, absent, bootstrap, raised, saw) ==
    [op |-> name, absent |-> absent, bootstrap |-> bootstrap, raised |-> raised, saw |-> saw]

NoOp == Op("none", FALSE, FALSE, FALSE, "none")

\* A fresh deployment: no model artifact next to the code; the feedback
\* directory is a data directory of its own and may hold earlier samples.
InitModel ==
    /\ modelFile = AbsentFile
    /\ snapFile = AbsentFile
    /\ fbStore \in UNION {[1..n -> FeedbackLabels] : n \in 0..MaxFeedback}
    /\ curModel = NoModel
    /\ engModel = NoModel
    /\ engineImported = FALSE
    /\ loadedOnce = FALSE
    /\ svcPc = "idle"
    /\ report = NoReport
    /\ lastOp = NoOp
    /\ inflight = NoModel
    /\ scriptPc = "idle"

\* import of forensics.engine: _ml_model = ml_predictor.get_model()
ImportEngine ==
    /\ svcPc = "idle"
    /\ ~engineImported
    /\ \E failed \in SUBSET (1..Len(fbStore)) :
         LET r == GetModel(curModel, modelFile, snapFile, fbStore, failed) IN
         /\ modelFile' = r.model
         /\ snapFile' = r.snap
         /\ curModel' = r.cur
         /\ engineImported' = ~r.raised
         /\ engModel' = IF r.raised THEN engModel ELSE r.cur
         /\ loadedOnce' = (loadedOnce \/ r.cur # NoModel)
         /\ lastOp' = Op("get_model", modelFile.st = "absent", r.bootstrap, r.raised, "none")
    /\ UNCHANGED <<fbStore, svcPc, report, inflight, scriptPc>>
    /\ UNCHANGED avars
    /\ UNCHANGED bvars
    /\ UNCHANGED tvars
    /\ UNCHANGED rvars
    /\ UNCHANGED fvars
    /\ UNCHANGED pvars
    /\ UNCHANGED cvars
    /\ UNCHANGED svars
    /\ UNCHANGED uvars

\* ml_predictor.load_model() called directly
LoadModelCall ==
    /\ svcPc = "idle"
    /\ \E failed \in SUBSET (1..Len(fbStore)) :
         LET r == LoadModel(curModel, modelFile, snapFile, fbStore, failed) IN
         /\ modelFile' = r.model
         /\ snapFile' = r.snap
         /\ curModel' = r.cur
         /\ loadedOnce' = (loadedOnce \/ r.cur # NoModel)
         /\ lastOp' = Op("load_model", modelFile.st = "absent", r.bootstrap, r.raised, "none")
    /\ UNCHANGED <<fbStore, engModel, engineImported, svcPc, report, inflight, scriptPc>>
    /\ UNCHANGED avars
    /\ UNCHANGED bvars
    /\ UNCHANGED tvars
    /\ UNCHANGED rvars
    /\ UNCHANGED fvars
    /\ UNCHANGED pvars
    /\ UNCHANGED cvars
    /\ UNCHANGED svars
    /\ UNCHANGED uvars

\* ml_predictor.reload_model() called directly, possibly on a thread of its
\* own: first joblib.load(MODEL_PATH) ...
ReloadModelLoad ==
    /\ inflight = NoModel
    /\ IF JoblibLoadRaises(modelFile)
       THEN /\ lastOp' = Op("reload_model", modelFile.st = "absent", FALSE, TRUE, "none")
            /\ inflight' = inflight
       ELSE /\ inflight' = modelFile.data
            /\ lastOp' = lastOp
    /\ UNCHANGED <<modelFile, snapFile, fbStore, curModel, engModel, engineImported,
                   loadedOnce, svcPc, report, scriptPc>>
    /\ UNCHANGED avars
    /\ UNCHANGED bvars
    /\ UNCHANGED tvars
    /\ UNCHANGED rvars
    /\ UNCHANGED fvars
    /\ UNCHANGED pvars
    /\ UNCHANGED cvars
    /\ UNCHANGED svars
    /\ UNCHANGED uvars

\* ... then the assignment to the global _current_ml_model.
ReloadModelAssign ==
    /\ inflight # NoModel
    /\ curModel' = inflight
    /\ loadedOnce' = TRUE
    /\ inflight' = NoModel
    /\ lastOp' = Op("reload_model", FALSE, FALSE, FALSE, "none")
    /\ UNCHANGED <<modelFile, snapFile, fbStore, engModel, engineImported, svcPc,
                   report, scriptPc>>
    /\ UNCHANGED avars
    /\ UNCHANGED bvars
    /\ UNCHANGED tvars
    /\ UNCHANGED rvars
    /\ UNCHANGED fvars
    /\ UNCHANGED pvars
    /\ UNCHANGED cvars
    /\ UNCHANGED svars
    /\ UNCHANGED uvars

\* run_analysis hands engine._ml_model to ml_predictor.predict
Predict ==
    /\ engineImported
    /\ lastOp' = Op("predict", FALSE, FALSE, engModel = NoModel,
                    IF engModel = NoModel THEN "null" ELSE "model")
    /\ UNCHANGED <<modelFile, snapFile, fbStore, curModel, engModel, engineImported,
                   loadedOnce, svcPc, report, inflight, scriptPc>>
    /\ UNCHANGED avars
    /\ UNCHANGED bvars
    /\ UNCHANGED tvars
    /\ UNCHANGED rvars
    /\ UNCHANGED fvars
    /\ UNCHANGED pvars
    /\ UNCHANGED cvars
    /\ UNCHANGED svars
    /\ UNCHANGED uvars

\* receive_feedback, steps 1 and 2: save_feedback_image_and_label, then
\* retrain_with_feedback.  An exception of the retraining leaves the handler.
FeedbackSaveRetrain ==
    /\ svcPc = "idle"
    /\ engineImported
    /\ Len(fbStore) < MaxFeedback
    /\ \E label \in FeedbackLabels :
         LET store == Append(fbStore, label) IN
         \E failed \in SUBSET (1..Len(store)) :
           LET r == RetrainWithFeedback(modelFile, snapFile, store, failed) IN
           /\ fbStore' = store
           /\ modelFile' = r.model
           /\ snapFile' = r.snap
           /\ report' = [id |-> Len(store), label |-> label,
                         retrain |-> IF r.raised THEN "raised" ELSE "ok",
                         reload |-> "none",
                         response |-> IF r.raised THEN "error" ELSE "pending",
                         snap |-> r.snap.data]
           /\ svcPc' = IF r.raised THEN "idle" ELSE "reload"
    /\ lastOp' = Op("report", FALSE, FALSE, FALSE, "none")
    /\ UNCHANGED <<curModel, engModel, engineImported, loadedOnce, inflight, scriptPc>>
    /\ UNCHANGED avars
    /\ UNCHANGED bvars
    /\ UNCHANGED tvars
    /\ UNCHANGED rvars
    /\ UNCHANGED fvars
    /\ UNCHANGED pvars
    /\ UNCHANGED cvars
    /\ UNCHANGED svars
    /\ UNCHANGED uvars

\* receive_feedback, step 3: engine.reload_ml_model(), then the response.
FeedbackReload ==
    /\ svcPc = "reload"
    /\ LET r == ReloadModel(curModel, modelFile) IN
         /\ curModel' = r.cur
         /\ engModel' = IF r.raised THEN engModel ELSE r.cur
         /\ loadedOnce' = (loadedOnce \/ r.cur # NoModel)
         /\ report' = [report EXCEPT !.reload = IF r.raised THEN "raised" ELSE "ok",
                                     !.response = IF r.raised THEN "error" ELSE "success"]
    /\ svcPc' = "idle"
    /\ lastOp' = Op("report", FALSE, FALSE, FALSE, "none")
    /\ UNCHANGED <<modelFile, snapFile, fbStore, engineImported, inflight, scriptPc>>
    /\ UNCHANGED avars
    /\ UNCHANGED bvars
    /\ UNCHANGED tvars
    /\ UNCHANGED rvars
    /\ UNCHANGED fvars
    /\ UNCHANGED pvars
    /\ UNCHANGED cvars
    /\ UNCHANGED svars
    /\ UNCHANGED uvars

(***************************************************************************)
(* train_model.py, a process of its own, calls train_and_save_model on the  *)
(* batch features: joblib.dump opens the target for writing, which empties  *)
(* it, and the file is complete when the dump returns.                      *)
(***************************************************************************)
ScriptDumpModelBegin ==
    /\ scriptPc = "idle"
    /\ modelFile' = PartialFile
    /\ scriptPc' = "model_open"
    /\ UNCHANGED <<snapFile, fbStore, curModel, engModel, engineImported, loadedOnce,
                   svcPc, report, lastOp, inflight>>
    /\ UNCHANGED avars
    /\ UNCHANGED bvars
    /\ UNCHANGED tvars
    /\ UNCHANGED rvars
    /\ UNCHANGED fvars
    /\ UNCHANGED pvars
    /\ UNCHANGED cvars
    /\ UNCHANGED svars
    /\ UNCHANGED uvars

ScriptDumpModelEnd ==
    /\ scriptPc = "model_open"
    /\ modelFile' = OkFile(BatchData)
    /\ scriptPc' = "model_done"
    /\ UNCHANGED <<snapFile, fbStore, curModel, engModel, engineImported, loadedOnce,
                   svcPc, report, lastOp, inflight>>
    /\ UNCHANGED avars
    /\ UNCHANGED bvars
    /\ UNCHANGED tvars
    /\ UNCHANGED rvars
    /\ UNCHANGED fvars
    /\ UNCHANGED pvars
    /\ UNCHANGED cvars
    /\ UNCHANGED svars
    /\ UNCHANGED uvars

ScriptDumpSnapBegin ==
    /\ scriptPc = "model_done"
    /\ snapFile' = PartialFile
    /\ scriptPc' = "snap_open"
    /\ UNCHANGED <<modelFile, fbStore, curModel, engModel, engineImported, loadedOnce,
                   svcPc, report, lastOp, inflight>>
    /\ UNCHANGED avars
    /\ UNCHANGED bvars
    /\ UNCHANGED tvars
    /\ UNCHANGED rvars
    /\ UNCHANGED fvars
    /\ UNCHANGED pvars
    /\ UNCHANGED cvars
    /\ UNCHANGED svars
    /\ UNCHANGED uvars

ScriptDumpSnapEnd ==
    /\ scriptPc = "snap_open"
    /\ snapFile' = OkFile(BatchData)
    /\ scriptPc' = "idle"
    /\ UNCHANGED <<modelFile, fbStore, curModel, engModel, engineImported, loadedOnce,
                   svcPc, report, lastOp, inflight>>
    /\ UNCHANGED avars
    /\ UNCHANGED bvars
    /\ UNCHANGED tvars
    /\ UNCHANGED rvars
    /\ UNCHANGED fvars
    /\ UNCHANGED pvars
    /\ UNCHANGED cvars
    /\ UNCHANGED svars
    /\ UNCHANGED uvars

NextModel ==
    \/ ImportEngine
    \/ LoadModelCall
    \/ ReloadModelLoad
    \/ ReloadModelAssign
    \/ Predict
    \/ FeedbackSaveRetrain
    \/ FeedbackReload
    \/ ScriptDumpModelBegin
    \/ ScriptDumpModelEnd
    \/ ScriptDumpSnapBegin
    \/ ScriptDumpSnapEnd

(***************************************************************************)
(* Direct calls of the model manager on a running service                   *)
(* (ml_predictor.train_and_save_model, retrain_with_feedback, predict and   *)
(* engine.reload_ml_model), with the arguments drawn from small sets.       *)
(***************************************************************************)
MaxRows == 2

\* The number of calls followed from the initial state.
MaxCalls == 3

\* The widths of the feature matrices and vectors handed in: the 12 of
\* run_analysis and the 13 of extract_features_from_image_bytes.
Widths == {Len(EngineReadKeys), Len(ExtractReadKeys)}

\* train_test_split(features, labels, test_size=0.2, random_state=42):
\* n_test = ceil(0.2 * n) and n_train = n - n_test; a ValueError when the
\* train set would be empty.
NTest(n) == (n + 4) \div 5

NTrain(n) == n - NTest(n)

TrainTestSplitRaises(n) == NTrain(n) = 0

\* The arguments (features, labels) as training data: one row per label.
\* The rows carry negative ids, apart from the ids of the feedback samples.
GivenData(w, labels) ==
    [width |-> w, base |-> "none",
     fb |-> {[id |-> -i, label |-> labels[i], copies |-> 1] : i \in 1..Len(labels)}]

\* The label classes of training data.  The placeholder set draws 100
\* labels with randint(0, 2) and the batch set holds REAL and FAKE files.
LabelClasses(data) ==
    (IF data.base \in {"dummy", "batch"} THEN {0, 1} ELSE {}) \cup {r.label : r \in data.fb}

\* train_and_save_model(features, labels): split, fit, evaluate, then the two
\* joblib.dump calls.  RandomForestClassifier.fit accepts labels of a single
\* class; nothing in the function looks at the classes.
TrainAndSaveModel(mf, sf, w, labels) ==
    IF TrainTestSplitRaises(Len(labels))
    THEN [raised |-> TRUE, model |-> mf, snap |-> sf]
    ELSE [raised |-> FALSE,
          model |-> OkFile(GivenData(w, labels)),
          snap |-> OkFile(GivenData(w, labels))]

\* The in-memory model once a training has implicitly made its result active.
ActiveAfterTrainingSwapped(active, trained) == trained

\* The in-memory model after train_and_save_model / retrain_with_feedback:
\* neither function assigns _current_ml_model or engine._ml_model.
ActiveAfterTraining(active, trained) == active

\* predict(model, features): model.predict raises ValueError unless the
\* vector has the width the model was fitted on; predict_proba(...)[0, 1]
\* raises IndexError on a model fitted on the single class 1.
PredictOutcome(model, veclen) ==
    IF ~PredictAccepts(model.width, [i \in 1..veclen |-> 0]) THEN "ValueError"
    ELSE IF LabelClasses(model) = {1} THEN "IndexError"
    ELSE "ok"

Before == [model |-> modelFile, snap |-> snapFile, cur |-> curModel, eng |-> engModel]

Call(name, raised, error, classes, veclen) ==
    [op |-> name, raised |-> raised, error |-> error, classes |-> classes,
     veclen |-> veclen, before |-> Before, seq |-> call.seq + 1]

NoCall == [op |-> "none", raised |-> FALSE, error |-> "none", classes |-> {},
           veclen |-> 0, before |-> [model |-> AbsentFile, snap |-> AbsentFile,
                                     cur |-> NoModel, eng |-> NoModel],
           seq |-> 0]

\* A running service: the engine is imported and holds the model of the
\* model file, either the bootstrap model or the one train_model.py left.
InitTrain ==
    /\ modelFile \in {OkFile(DummyData), OkFile(BatchData)}
    /\ snapFile = modelFile
    /\ fbStore \in UNION {[1..n -> FeedbackLabels] : n \in 0..MaxFeedback}
    /\ curModel = modelFile.data
    /\ engModel = modelFile.data
    /\ engineImported = TRUE
    /\ loadedOnce = TRUE
    /\ svcPc = "idle"
    /\ report = NoReport
    /\ lastOp = NoOp
    /\ inflight = NoModel
    /\ scriptPc = "idle"
    /\ call = NoCall

\* train_and_save_model(features, labels) with any labels of up to MaxRows rows
TrainAndSave ==
    /\ call.seq < MaxCalls
    /\ \E w \in Widths : \E labels \in UNION {[1..n -> {0, 1}] : n \in 0..MaxRows} :
         LET r == TrainAndSaveModel(modelFile, snapFile, w, labels) IN
         /\ modelFile' = r.model
         /\ snapFile' = r.snap
         /\ curModel' = ActiveAfterTraining(curModel, r.model.data)
         /\ engModel' = ActiveAfterTraining(engModel, r.model.data)
         /\ call' = Call("train_and_save_model", r.raised,
                         IF r.raised THEN "ValueError" ELSE "none",
                         {labels[i] : i \in 1..Len(labels)}, 0)
    /\ UNCHANGED <<fbStore, engineImported, loadedOnce, svcPc, report, lastOp, inflight,
                   scriptPc>>
    /\ UNCHANGED avars
    /\ UNCHANGED bvars
    /\ UNCHANGED rvars
    /\ UNCHANGED fvars
    /\ UNCHANGED pvars
    /\ UNCHANGED cvars
    /\ UNCHANGED svars
    /\ UNCHANGED uvars

\* retrain_with_feedback()
Retrain ==
    /\ call.seq < MaxCalls
    /\ \E failed \in SUBSET (1..Len(fbStore)) :
         LET r == RetrainWithFeedback(modelFile, snapFile, fbStore, failed) IN
         /\ modelFile' = r.model
         /\ snapFile' = r.snap
         /\ curModel' = ActiveAfterTraining(curModel, r.model.data)
         /\ engModel' = ActiveAfterTraining(engModel, r.model.data)
         /\ call' = Call("retrain_with_feedback", r.raised,
                         IF r.raised THEN "ValueError" ELSE "none",
                         LabelClasses(r.model.data), 0)
    /\ UNCHANGED <<fbStore, engineImported, loadedOnce, svcPc, report, lastOp, inflight,
                   scriptPc>>
    /\ UNCHANGED avars
    /\ UNCHANGED bvars
    /\ UNCHANGED rvars
    /\ UNCHANGED fvars
    /\ UNCHANGED pvars
    /\ UNCHANGED cvars
    /\ UNCHANGED svars
    /\ UNCHANGED uvars

\* engine.reload_ml_model(): _ml_model = ml_predictor.reload_model()
ReloadMlModel ==
    /\ call.seq < MaxCalls
    /\ LET r == ReloadModel(curModel, modelFile) IN
         /\ curModel' = r.cur
         /\ engModel' = IF r.raised THEN engModel ELSE r.cur
         /\ call' = Call("reload_ml_model", r.raised,
                         IF r.raised THEN "LoadError" ELSE "none", {}, 0)
    /\ UNCHANGED <<modelFile, snapFile, fbStore, engineImported, loadedOnce, svcPc,
                   report, lastOp, inflight, scriptPc>>
    /\ UNCHANGED avars
    /\ UNCHANGED bvars
    /\ UNCHANGED rvars
    /\ UNCHANGED fvars
    /\ UNCHANGED pvars
    /\ UNCHANGED cvars
    /\ UNCHANGED svars
    /\ UNCHANGED uvars

\* One /analyze request reaching ml_predictor.predict(engine._ml_model, vector):
\* an exception ends that request (main.py answers 500) and nothing else.
PredictVector ==
    /\ call.seq < MaxCalls
    /\ \E veclen \in Widths :
         LET out == PredictOutcome(engModel, veclen) IN
         call' = Call("predict", out # "ok", out, {}, veclen)
    /\ UNCHANGED <<modelFile, snapFile, fbStore, curModel, engModel, engineImported,
                   loadedOnce, svcPc, report, lastOp, inflight, scriptPc>>
    /\ UNCHANGED avars
    /\ UNCHANGED bvars
    /\ UNCHANGED rvars
    /\ UNCHANGED fvars
    /\ UNCHANGED pvars
    /\ UNCHANGED cvars
    /\ UNCHANGED svars
    /\ UNCHANGED uvars

NextTrain == TrainAndSave \/ Retrain \/ ReloadMlModel \/ PredictVector

(***************************************************************************)
(* The batch extraction pipeline (scripts/train_model.py).                  *)
(*                                                                         *)
(* The dataset holds NumFiles image files, numbered 1..NumFiles: the odd    *)
(* ones lie under DATASET_ROOT/REAL, the even ones under DATASET_ROOT/FAKE, *)
(* and files 2k-1 and 2k carry the same basename (REAL/k.png, FAKE/k.png).  *)
(***************************************************************************)
NumFiles == 3

\* CHUNK_SIZE, scaled down so that NumFiles files fill more than one chunk.
ChunkSize == 2

Dataset == 1..NumFiles

DirOf(f) == IF f % 2 = 1 THEN "REAL" ELSE "FAKE"

BaseName(f) == (f + 1) \div 2

\* clean_filename(os.path.basename(filepath)): the key of image_tracking.
\* The directory is not part of it.
FileKey(f) == BaseName(f)

\* 1 if 'FAKE' in filepath else 0
BatchLabel(f) == IF DirOf(f) = "FAKE" THEN 1 ELSE 0

\* all_files.sort(): paths compare as strings, so .../FAKE/... sorts before
\* .../REAL/..., and within a directory by basename.
PathLess(f, g) ==
    \/ DirOf(f) = "FAKE" /\ DirOf(g) = "REAL"
    \/ DirOf(f) = DirOf(g) /\ BaseName(f) < BaseName(g)

RECURSIVE SortedPaths(_)
SortedPaths(S) ==
    IF S = {} THEN <<>>
    ELSE LET m == CHOOSE x \in S : \A y \in S \ {x} : PathLess(x, y)
         IN  <<m>> \o SortedPaths(S \ {m})

\* [all_files[i:i + CHUNK_SIZE] for i in range(0, len(all_files), CHUNK_SIZE)]
ChunksOf(all) ==
    [c \in 1..((Len(all) + ChunkSize - 1) \div ChunkSize) |->
        SubSeq(all, (c - 1) * ChunkSize + 1,
               IF c * ChunkSize < Len(all) THEN c * ChunkSize ELSE Len(all))]

\* [item for sublist in chunks for item in sublist], as a set
FlatChunks(chunks) ==
    UNION {{chunks[c][i] : i \in 1..Len(chunks[c])} : c \in DOMAIN chunks}

NoTracking == [k \in {} |-> "none"]

NoManifest == [st |-> "absent", chunks |-> <<>>, tracking |-> NoTracking]

\* initialize_progress_file
InitialManifest == [st |-> "ok", chunks |-> ChunksOf(SortedPaths(Dataset)),
                    tracking |-> NoTracking]

NoFeatures == [st |-> "absent", rows |-> <<>>, processed |-> {}]

\* completed_files: the processed_filepaths of the feature store, read only
\* when the store holds features.
CompletedFiles(feat) ==
    IF feat.st = "ok" /\ feat.rows # <<>> THEN feat.processed ELSE {}

\* The task list with completed_files ignored: every file of the chunks.
AllTasks(flat, completed) == flat

\* tasks: every file of the chunks that is not in completed_files.
PendingTasks(flat, completed) == {f \in flat : f \notin completed}

\* progress_data as the run holds it in memory
NoProgress == [chunks |-> <<>>, tracking |-> NoTracking]

\* PROGRESS_FILE between open(PROGRESS_FILE, 'w'), which empties it, and the
\* end of json.dump: the file exists and holds no complete JSON document.
PartialManifest == [st |-> "partial", chunks |-> <<>>, tracking |-> NoTracking]

\* FEATURES_FILE while joblib.dump writes into it.
PartialFeatures == [st |-> "partial", rows |-> <<>>, processed |-> {}]

NoRun == [end |-> "none", errors |-> {}, after |-> "none", received |-> {}]

InitBatch ==
    /\ manifest = NoManifest
    /\ featFile = NoFeatures
    /\ bpc = "idle"
    /\ progress = NoProgress
    /\ loaded = NoFeatures
    /\ tasks = {}
    /\ pending = {}
    /\ newly = <<>>
    /\ runErrors = {}
    /\ recorded = {}
    /\ lastRun = NoRun

\* run_feature_extraction up to the submission of the tasks.  json.load and
\* joblib.load raise on a file that was cut short; the function returns at
\* once when there is nothing to process.
StartRun ==
    /\ bpc = "idle"
    /\ LET m == IF manifest.st = "absent" THEN InitialManifest ELSE manifest
           t == PendingTasks(FlatChunks(m.chunks), CompletedFiles(featFile))
       IN  /\ manifest' = m
           /\ IF m.st = "partial" \/ featFile.st = "partial"
              THEN /\ tasks' = {}
                   /\ bpc' = "idle"
                   /\ progress' = NoProgress
                   /\ loaded' = NoFeatures
                   /\ pending' = {}
                   /\ lastRun' = [end |-> "raised", errors |-> {}, after |-> lastRun.end,
                                  received |-> {}]
              ELSE IF t = {}
              THEN /\ tasks' = t
                   /\ bpc' = "idle"
                   /\ progress' = NoProgress
                   /\ loaded' = NoFeatures
                   /\ pending' = {}
                   /\ lastRun' = [end |-> "finished", errors |-> {}, after |-> lastRun.end,
                                  received |-> {}]
              ELSE /\ tasks' = t
                   /\ bpc' = "running"
                   /\ progress' = [chunks |-> m.chunks, tracking |-> m.tracking]
                   /\ loaded' = featFile
                   /\ pending' = t
                   /\ lastRun' = lastRun
    /\ newly' = <<>>
    /\ runErrors' = {}
    /\ UNCHANGED <<featFile, recorded>>
    /\ UNCHANGED avars
    /\ UNCHANGED mvars
    /\ UNCHANGED tvars
    /\ UNCHANGED rvars
    /\ UNCHANGED fvars
    /\ UNCHANGED pvars
    /\ UNCHANGED cvars
    /\ UNCHANGED svars
    /\ UNCHANGED uvars

\* One iteration of `for future in as_completed(...)`: the result of file f
\* arrives, its status is set and PROGRESS_FILE is opened for writing.
FileResult ==
    /\ bpc = "running"
    /\ \E f \in pending : \E ok \in BOOLEAN :
         LET status == IF ok THEN "completed" ELSE "error"
             track == [k \in (DOMAIN progress.tracking) \cup {FileKey(f)} |->
                          IF k = FileKey(f) THEN status ELSE progress.tracking[k]]
         IN  /\ progress' = [progress EXCEPT !.tracking = track]
             /\ newly' = IF ok THEN Append(newly, f) ELSE newly
             /\ runErrors' = IF ok THEN runErrors ELSE runErrors \cup {f}
             /\ pending' = pending \ {f}
    /\ manifest' = PartialManifest
    /\ bpc' = "writing"
    /\ UNCHANGED <<featFile, loaded, tasks, recorded, lastRun>>
    /\ UNCHANGED avars
    /\ UNCHANGED mvars
    /\ UNCHANGED tvars
    /\ UNCHANGED rvars
    /\ UNCHANGED fvars
    /\ UNCHANGED pvars
    /\ UNCHANGED cvars
    /\ UNCHANGED svars
    /\ UNCHANGED uvars

\* json.dump(progress_data, f, indent=4) has written everything and the
\* file is closed.
ManifestWritten ==
    /\ bpc = "writing"
    /\ manifest' = [st |-> "ok", chunks |-> progress.chunks, tracking |-> progress.tracking]
    /\ recorded' = recorded \cup {newly[i] : i \in 1..Len(newly)}
    /\ bpc' = "running"
    /\ UNCHANGED <<featFile, progress, loaded, tasks, pending, newly, runErrors, lastRun>>
    /\ UNCHANGED avars
    /\ UNCHANGED mvars
    /\ UNCHANGED tvars
    /\ UNCHANGED rvars
    /\ UNCHANGED fvars
    /\ UNCHANGED pvars
    /\ UNCHANGED cvars
    /\ UNCHANGED svars
    /\ UNCHANGED uvars

\* After the loop, when this run extracted nothing: the function returns.
FinishRun ==
    /\ bpc = "running"
    /\ pending = {}
    /\ newly = <<>>
    /\ lastRun' = [end |-> "finished", errors |-> runErrors, after |-> lastRun.end,
                   received |-> tasks]
    /\ bpc' = "idle"
    /\ progress' = NoProgress
    /\ loaded' = NoFeatures
    /\ runErrors' = {}
    /\ UNCHANGED <<manifest, featFile, tasks, pending, newly, recorded>>
    /\ UNCHANGED avars
    /\ UNCHANGED mvars
    /\ UNCHANGED tvars
    /\ UNCHANGED rvars
    /\ UNCHANGED fvars
    /\ UNCHANGED pvars
    /\ UNCHANGED cvars
    /\ UNCHANGED svars
    /\ UNCHANGED uvars

\* After the loop, when this run extracted something: joblib.dump opens
\* FEATURES_FILE for writing ...
DumpStoreBegin ==
    /\ bpc = "running"
    /\ pending = {}
    /\ newly # <<>>
    /\ featFile' = PartialFeatures
    /\ bpc' = "saving"
    /\ UNCHANGED <<manifest, progress, loaded, tasks, pending, newly, runErrors, recorded,
                   lastRun>>
    /\ UNCHANGED avars
    /\ UNCHANGED mvars
    /\ UNCHANGED tvars
    /\ UNCHANGED rvars
    /\ UNCHANGED fvars
    /\ UNCHANGED pvars
    /\ UNCHANGED cvars
    /\ UNCHANGED svars
    /\ UNCHANGED uvars

\* ... and has written the old and the new rows; the function returns.
DumpStoreEnd ==
    /\ bpc = "saving"
    /\ featFile' = [st |-> "ok",
                    rows |-> loaded.rows \o newly,
                    processed |-> CompletedFiles(loaded) \cup
                                  {newly[i] : i \in 1..Len(newly)}]
    /\ lastRun' = [end |-> "finished", errors |-> runErrors, after |-> lastRun.end,
                   received |-> tasks]
    /\ bpc' = "idle"
    /\ progress' = NoProgress
    /\ loaded' = NoFeatures
    /\ newly' = <<>>
    /\ runErrors' = {}
    /\ UNCHANGED <<manifest, tasks, pending, recorded>>
    /\ UNCHANGED avars
    /\ UNCHANGED mvars
    /\ UNCHANGED tvars
    /\ UNCHANGED rvars
    /\ UNCHANGED fvars
    /\ UNCHANGED pvars
    /\ UNCHANGED cvars
    /\ UNCHANGED svars
    /\ UNCHANGED uvars

\* The process is killed while it runs: what it held in memory is gone, the
\* files stay as they are at that instant.
Interrupt ==
    /\ bpc \in {"running", "writing", "saving"}
    /\ lastRun' = [end |-> "interrupted", errors |-> runErrors, after |-> lastRun.end,
                   received |-> tasks \ pending]
    /\ bpc' = "idle"
    /\ progress' = NoProgress
    /\ loaded' = NoFeatures
    /\ pending' = {}
    /\ newly' = <<>>
    /\ runErrors' = {}
    /\ UNCHANGED <<manifest, featFile, tasks, recorded>>
    /\ UNCHANGED avars
    /\ UNCHANGED mvars
    /\ UNCHANGED tvars
    /\ UNCHANGED rvars
    /\ UNCHANGED fvars
    /\ UNCHANGED pvars
    /\ UNCHANGED cvars
    /\ UNCHANGED svars
    /\ UNCHANGED uvars

NextBatch ==
    \/ StartRun
    \/ FileResult
    \/ ManifestWritten
    \/ FinishRun
    \/ DumpStoreBegin
    \/ DumpStoreEnd
    \/ Interrupt

(***************************************************************************)
(* Two processes run train_model.py at the same time over the same          *)
(* PROGRESS_FILE and FEATURES_FILE.  The script takes no lock and each      *)
(* process writes the files from its own copy of their content.  Each write *)
(* is taken here as one step.                                               *)
(***************************************************************************)
Runners == {1, 2}

NotStarted == [pc |-> "idle", progress |-> NoProgress, loaded |-> NoFeatures,
               pending |-> {}, newly |-> <<>>]

InitTwoRuns ==
    /\ runs = [r \in Runners |-> NotStarted]
    /\ written = [keys |-> {}, rows |-> {}]

\* run_feature_extraction of process r up to the submission of the tasks
StartRunOf(r) ==
    /\ runs[r].pc = "idle"
    /\ LET m == IF manifest.st = "absent" THEN InitialManifest ELSE manifest
           t == PendingTasks(FlatChunks(m.chunks), CompletedFiles(featFile))
       IN  /\ manifest' = m
           /\ runs' = [runs EXCEPT ![r] =
                          IF t = {} THEN [NotStarted EXCEPT !.pc = "done"]
                          ELSE [pc |-> "running",
                                progress |-> [chunks |-> m.chunks, tracking |-> m.tracking],
                                loaded |-> featFile, pending |-> t, newly |-> <<>>]]
    /\ UNCHANGED <<featFile, written>>
    /\ UNCHANGED <<bpc, progress, loaded, tasks, pending, newly, runErrors, recorded, lastRun>>
    /\ UNCHANGED avars
    /\ UNCHANGED mvars
    /\ UNCHANGED tvars
    /\ UNCHANGED fvars
    /\ UNCHANGED pvars
    /\ UNCHANGED cvars
    /\ UNCHANGED svars
    /\ UNCHANGED uvars

\* One result arrives in process r: it sets the status in its progress_data
\* and writes its progress_data to PROGRESS_FILE.
FileResultOf(r) ==
    /\ runs[r].pc = "running"
    /\ \E f \in runs[r].pending : \E ok \in BOOLEAN :
         LET status == IF ok THEN "completed" ELSE "error"
             old == runs[r].progress.tracking
             track == [k \in (DOMAIN old) \cup {FileKey(f)} |->
                          IF k = FileKey(f) THEN status ELSE old[k]]
         IN  /\ runs' = [runs EXCEPT ![r].progress.tracking = track,
                                     ![r].pending = @ \ {f},
                                     ![r].newly = IF ok THEN Append(@, f) ELSE @]
             /\ manifest' = [st |-> "ok", chunks |-> runs[r].progress.chunks,
                             tracking |-> track]
             /\ written' = [written EXCEPT !.keys = @ \cup {FileKey(f)}]
    /\ UNCHANGED featFile
    /\ UNCHANGED <<bpc, progress, loaded, tasks, pending, newly, runErrors, recorded, lastRun>>
    /\ UNCHANGED avars
    /\ UNCHANGED mvars
    /\ UNCHANGED tvars
    /\ UNCHANGED fvars
    /\ UNCHANGED pvars
    /\ UNCHANGED cvars
    /\ UNCHANGED svars
    /\ UNCHANGED uvars

\* After the loop of process r: it writes the rows it loaded at its start
\* together with its new rows to FEATURES_FILE, when it extracted something.
FinishRunOf(r) ==
    /\ runs[r].pc = "running"
    /\ runs[r].pending = {}
    /\ LET new == {runs[r].newly[i] : i \in 1..Len(runs[r].newly)} IN
         /\ featFile' = IF new = {} THEN featFile
                        ELSE [st |-> "ok",
                              rows |-> runs[r].loaded.rows \o runs[r].newly,
                              processed |-> CompletedFiles(runs[r].loaded) \cup new]
         /\ written' = [written EXCEPT !.rows = @ \cup new]
    /\ runs' = [runs EXCEPT ![r] = [NotStarted EXCEPT !.pc = "done"]]
    /\ UNCHANGED manifest
    /\ UNCHANGED <<bpc, progress, loaded, tasks, pending, newly, runErrors, recorded, lastRun>>
    /\ UNCHANGED avars
    /\ UNCHANGED mvars
    /\ UNCHANGED tvars
    /\ UNCHANGED fvars
    /\ UNCHANGED pvars
    /\ UNCHANGED cvars
    /\ UNCHANGED svars
    /\ UNCHANGED uvars

NextTwoRuns ==
    \/ \E r \in Runners : StartRunOf(r)
    \/ \E r \in Runners : FileResultOf(r)
    \/ \E r \in Runners : FinishRunOf(r)

(***************************************************************************)
(* The feedback store (ml_predictor.save_feedback_image_and_label) called   *)
(* from several request threads at once and again and again.  A file is     *)
(* identified by its label directory and its name; it is empty between      *)
(* open(image_filename, "wb") and the write.                                *)
(***************************************************************************)
MaxSaves == 3

Savers == {1, 2}

Names == 1..MaxSaves

NoFiles == [p \in {} |-> [owner |-> 0, state |-> "none"]]

Idle == [pc |-> "idle", label |-> "none", name |-> 0, id |-> 0]

\* The names a save may get when names are not unique: any name at all.
AnyName(used) == Names

\* uuid.uuid4(): 122 random bits; a value drawn before is not drawn again.
Uuid4(used) == Names \ used

\* The names in use: those of the files and those drawn by calls under way.
UsedNames == {p[2] : p \in DOMAIN fbFiles} \cup
             {savers[c].name : c \in {x \in Savers : savers[x].pc # "idle"}}

InitFeedbackStore ==
    /\ fbFiles = NoFiles
    /\ savers = [c \in Savers |-> Idle]
    /\ saves = 0

\* label_dir, os.makedirs(label_dir, exist_ok=True) and the file name
SaveName(c) ==
    /\ savers[c].pc = "idle"
    /\ saves < MaxSaves
    /\ \E label \in FeedbackLabels : \E n \in Uuid4(UsedNames) :
         savers' = [savers EXCEPT ![c] = [pc |-> "named", label |-> label, name |-> n,
                                          id |-> saves + 1]]
    /\ saves' = saves + 1
    /\ UNCHANGED fbFiles
    /\ UNCHANGED avars
    /\ UNCHANGED mvars
    /\ UNCHANGED bvars
    /\ UNCHANGED tvars
    /\ UNCHANGED rvars
    /\ UNCHANGED pvars
    /\ UNCHANGED cvars
    /\ UNCHANGED svars
    /\ UNCHANGED uvars

\* open(image_filename, "wb"): creates the file, or empties the one there
SaveOpen(c) ==
    /\ savers[c].pc = "named"
    /\ LET path == <<savers[c].label, savers[c].name>> IN
         fbFiles' = [p \in (DOMAIN fbFiles) \cup {path} |->
                        IF p = path THEN [owner |-> savers[c].id, state |-> "empty"]
                        ELSE fbFiles[p]]
    /\ savers' = [savers EXCEPT ![c].pc = "open"]
    /\ UNCHANGED saves
    /\ UNCHANGED avars
    /\ UNCHANGED mvars
    /\ UNCHANGED bvars
    /\ UNCHANGED tvars
    /\ UNCHANGED rvars
    /\ UNCHANGED pvars
    /\ UNCHANGED cvars
    /\ UNCHANGED svars
    /\ UNCHANGED uvars

\* f.write(image_bytes) and the end of the with block
SaveWrite(c) ==
    /\ savers[c].pc = "open"
    /\ LET path == <<savers[c].label, savers[c].name>> IN
         fbFiles' = [fbFiles EXCEPT ![path] = [owner |-> savers[c].id, state |-> "written"]]
    /\ savers' = [savers EXCEPT ![c] = Idle]
    /\ UNCHANGED saves
    /\ UNCHANGED avars
    /\ UNCHANGED mvars
    /\ UNCHANGED bvars
    /\ UNCHANGED tvars
    /\ UNCHANGED rvars
    /\ UNCHANGED pvars
    /\ UNCHANGED cvars
    /\ UNCHANGED svars
    /\ UNCHANGED uvars

NextFeedbackStore ==
    \/ \E c \in Savers : SaveName(c)
    \/ \E c \in Savers : SaveOpen(c)
    \/ \E c \in Savers : SaveWrite(c)

(***************************************************************************)
(* Preprocessing and submission: the try block at the head of run_analysis  *)
(* and of extract_features_from_image_bytes, then the executor.submit       *)
(* calls.  An image is what PIL makes of the uploaded bytes: whether        *)
(* Image.open and the decoding succeed, its size, and whether its mode can  *)
(* be written as PNG (a CMYK JPEG cannot).                                  *)
(***************************************************************************)
Sizes == {1, 256, 400, 450, 600, 800, 1080, 1920, 3000}

Images == [w : Sizes, h : Sizes, decodes : BOOLEAN, encodes : BOOLEAN]

\* max_height = 480
MaxHeight == 480

\* int(width * (max_height / height))
NewWidth(w, h) == (w * MaxHeight) \div h

\* downsize_image_to_480p: the size of the image it returns
DownsizeImageTo480p(w, h) ==
    IF h <= MaxHeight THEN <<w, h>> ELSE <<NewWidth(w, h), MaxHeight>>

\* image.resize raises ValueError on a width of 0
ResizeRaises(w, h) == h > MaxHeight /\ NewWidth(w, h) = 0

\* The try block raises: Image.open or the decoding fails, resize raises,
\* or save(format="PNG") cannot write the mode.
TryBlockRaises(img) == ~img.decodes \/ ResizeRaises(img.w, img.h) \/ ~img.encodes

InputBytes(img) == [kind |-> "input", w |-> img.w, h |-> img.h]

PngBytes(size) == [kind |-> "png", w |-> size[1], h |-> size[2]]

NoBytes == [kind |-> "none", w |-> 0, h |-> 0]

\* The preprocessing without the except clause: nothing to hand on when the
\* try block raises.
ProcessedImageBytesNoFallback(img) ==
    IF TryBlockRaises(img) THEN NoBytes
    ELSE PngBytes(DownsizeImageTo480p(img.w, img.h))

\* processed_image_bytes: the PNG of the downsized image, or image_bytes
\* itself when anything in the try block raised.
ProcessedImageBytes(img) ==
    IF TryBlockRaises(img) THEN InputBytes(img)
    ELSE PngBytes(DownsizeImageTo480p(img.w, img.h))

InitPreprocess ==
    /\ image \in Images
    /\ ppipe \in {"engine", "extract"}
    /\ ppc = "try"
    /\ processed = NoBytes
    /\ handed = <<>>

\* The try / except at the head of the function
Preprocess ==
    /\ ppc = "try"
    /\ processed' = ProcessedImageBytes(image)
    /\ ppc' = "submit"
    /\ UNCHANGED <<image, ppipe, handed>>
    /\ UNCHANGED avars
    /\ UNCHANGED mvars
    /\ UNCHANGED bvars
    /\ UNCHANGED tvars
    /\ UNCHANGED rvars
    /\ UNCHANGED fvars
    /\ UNCHANGED cvars
    /\ UNCHANGED svars
    /\ UNCHANGED uvars

\* futures[name] = executor.submit(..., processed_image_bytes)
Submit ==
    /\ ppc = "submit"
    /\ handed' = Append(handed, processed)
    /\ ppc' = IF Len(handed) + 1 = Len(Futures(ppipe)) THEN "done" ELSE "submit"
    /\ UNCHANGED <<image, ppipe, processed>>
    /\ UNCHANGED avars
    /\ UNCHANGED mvars
    /\ UNCHANGED bvars
    /\ UNCHANGED tvars
    /\ UNCHANGED rvars
    /\ UNCHANGED fvars
    /\ UNCHANGED cvars
    /\ UNCHANGED svars
    /\ UNCHANGED uvars

NextPreprocess == Preprocess \/ Submit

(***************************************************************************)
(* classify_image of run_dataset_tests.py.  Scores are in hundredths, so    *)
(* that 0.4 is 40; None is the score of a module that produced none.        *)
(***************************************************************************)
None == 0 - 1

\* GENERAL_THRESHOLDS['fake_min_score'], in hundredths
FakeMinScore == 40

TestModules == {"ela", "hos"}

ScoreValues == {None, 10, 30, 40, 41, 80}

ModuleLists == {<<>>, <<"ela">>, <<"hos">>, <<"ela", "hos">>, <<"hos", "ela">>}

NoVerdict == [classification |-> "none", is_correct |-> FALSE]

\* score is not None and score > GENERAL_THRESHOLDS['fake_min_score']
AboveFakeMin(score) == score # None /\ score > FakeMinScore

InitClassify ==
    /\ scores \in [TestModules -> ScoreValues]
    /\ groundTruth \in {"real", "fake"}
    /\ modulesRun \in ModuleLists
    /\ cpc = "loop"
    /\ ci = 1
    /\ isFake = FALSE
    /\ verdict = NoVerdict

\* One pass of: for module_name in modules_run
ClassifyStep ==
    /\ cpc = "loop"
    /\ ~isFake
    /\ ci <= Len(modulesRun)
    /\ isFake' = AboveFakeMin(scores[modulesRun[ci]])
    /\ ci' = ci + 1
    /\ UNCHANGED <<scores, groundTruth, modulesRun, cpc, verdict>>
    /\ UNCHANGED avars
    /\ UNCHANGED mvars
    /\ UNCHANGED bvars
    /\ UNCHANGED tvars
    /\ UNCHANGED rvars
    /\ UNCHANGED fvars
    /\ UNCHANGED pvars
    /\ UNCHANGED svars
    /\ UNCHANGED uvars

\* After the loop or the break: classification, is_correct, return
ClassifyReturn ==
    /\ cpc = "loop"
    /\ isFake \/ ci > Len(modulesRun)
    /\ LET classification == IF isFake THEN "fake" ELSE "real"
       IN  verdict' = [classification |-> classification,
                       is_correct |-> classification = groundTruth]
    /\ cpc' = "done"
    /\ UNCHANGED <<scores, groundTruth, modulesRun, ci, isFake>>
    /\ UNCHANGED avars
    /\ UNCHANGED mvars
    /\ UNCHANGED bvars
    /\ UNCHANGED tvars
    /\ UNCHANGED rvars
    /\ UNCHANGED fvars
    /\ UNCHANGED pvars
    /\ UNCHANGED svars
    /\ UNCHANGED uvars

NextClassify == ClassifyStep \/ ClassifyReturn

(***************************************************************************)
(* The dataset scan and the per-file bookkeeping of train_model.py, with    *)
(* file names as they are: a name is the sequence of its characters, a      *)
(* path is DATASET_ROOT, a label directory and a name joined by "/".        *)
(* Files are added to the dataset and removed from it between the calls of  *)
(* the script's functions.                                                  *)
(***************************************************************************)
MaxFiles == 4

MaxChanges == 1

\* The characters of the file names below, in code point order.
Alphabet == <<" ", "-", ".", "/", "A", "E", "F", "G", "J", "K", "L", "P", "R",
              "_", "a", "d", "g", "j", "n", "p", "t", "x">>

\* str.lower(), character by character
Lower(s) ==
    LET upper == <<"A", "E", "F", "G", "J", "K", "L", "P", "R">>
        lower == <<"a", "e", "f", "g", "j", "k", "l", "p", "r">>
    IN  [i \in 1..Len(s) |->
            IF IndexOf(upper, s[i]) > 0 THEN lower[IndexOf(upper, s[i])] ELSE s[i]]

\* str.endswith(suffix)
EndsWith(s, suffix) ==
    /\ Len(s) >= Len(suffix)
    /\ SubSeq(s, Len(s) - Len(suffix) + 1, Len(s)) = suffix

\* sub in s
Contains(s, sub) ==
    \E i \in 1..(Len(s) - Len(sub) + 1) : SubSeq(s, i, i + Len(sub) - 1) = sub

\* The characters [\s\W] matches: white space and everything that is not a
\* letter, a digit or "_".
NonWord == {" ", "-", ".", "/"}

RECURSIVE SkipNonWord(_)
SkipNonWord(s) ==
    IF s # <<>> /\ Head(s) \in NonWord THEN SkipNonWord(Tail(s)) ELSE s

\* re.sub(r'[\s\W]+', '_', filename): every maximal run of such characters
\* becomes one "_".
RECURSIVE clean_filename(_)
clean_filename(filename) ==
    IF filename = <<>> THEN <<>>
    ELSE IF Head(filename) \in NonWord
    THEN <<"_">> \o clean_filename(SkipNonWord(filename))
    ELSE <<Head(filename)>> \o clean_filename(Tail(filename))

\* filename.lower().endswith(('.png', '.jpg', '.jpeg'))
Eligible(filename) ==
    \/ EndsWith(Lower(filename), <<".", "p", "n", "g">>)
    \/ EndsWith(Lower(filename), <<".", "j", "p", "g">>)
    \/ EndsWith(Lower(filename), <<".", "j", "p", "e", "g">>)

REAL == <<"R", "E", "A", "L">>

FAKE == <<"F", "A", "K", "E">>

\* The values of DATASET_ROOT that occur: /d and /FAKE/d
Roots == {<<"/", "d">>, <<"/", "F", "A", "K", "E", "/", "d">>}

\* The files that may lie in the two label directories: REAL/a.png,
\* REAL/FAKE.JPG, REAL/n.txt, FAKE/a.png and FAKE/a-.png.
Entries ==
    {[dir |-> REAL, name |-> <<"a", ".", "p", "n", "g">>],
     [dir |-> REAL, name |-> <<"F", "A", "K", "E", ".", "J", "P", "G">>],
     [dir |-> REAL, name |-> <<"n", ".", "t", "x", "t">>],
     [dir |-> FAKE, name |-> <<"a", ".", "p", "n", "g">>],
     [dir |-> FAKE, name |-> <<"a", "-", ".", "p", "n", "g">>]}

\* os.path.join(os.path.join(DATASET_ROOT, label_dir_name), filename)
JoinPath(r, dir, name) == r \o <<"/">> \o dir \o <<"/">> \o name

\* os.path.basename(filepath): what follows the last "/"
RECURSIVE basename(_)
basename(filepath) ==
    IF IndexOf(filepath, "/") = 0 THEN filepath
    ELSE basename(SubSeq(filepath, IndexOf(filepath, "/") + 1, Len(filepath)))

\* a < b for str: by code point, a proper prefix first
StrLess(a, b) ==
    \E i \in 1..(Len(b)) :
        /\ \A j \in 1..(i - 1) : j <= Len(a) /\ a[j] = b[j]
        /\ \/ i = Len(a) + 1
           \/ i <= Len(a) /\ IndexOf(Alphabet, a[i]) < IndexOf(Alphabet, b[i])

RECURSIVE sort(_)

\* The list left as os.listdir gave it.
sort_skipped(list) == list

\* all_files.sort(): ascending by StrLess, here by insertion of the head into
\* the sorted tail
sort(list) ==
    IF list = <<>> THEN <<>>
    ELSE LET rest == sort(Tail(list))
             k == Cardinality({i \in 1..Len(rest) : StrLess(rest[i], Head(list))})
         IN  SubSeq(rest, 1, k) \o <<Head(list)>> \o SubSeq(rest, k + 1, Len(rest))

\* The orders in which os.listdir may give the names of directory dir.
Listings(files, dir) ==
    LET names == {e.name : e \in {x \in files : x.dir = dir}}
    IN  {s \in [1..Cardinality(names) -> names] :
            \A i \in DOMAIN s : \A j \in DOMAIN s : i # j => s[i] # s[j]}

\* The paths appended for one directory, in listing order
RECURSIVE AppendEligible(_, _, _)
AppendEligible(r, dir, listing) ==
    IF listing = <<>> THEN <<>>
    ELSE (IF Eligible(Head(listing)) THEN <<JoinPath(r, dir, Head(listing))>> ELSE <<>>)
         \o AppendEligible(r, dir, Tail(listing))

\* [item for sublist in chunks for item in sublist]
RECURSIVE Flatten(_)
Flatten(chunks) ==
    IF chunks = <<>> THEN <<>> ELSE Head(chunks) \o Flatten(Tail(chunks))

Range(s) == {s[i] : i \in 1..Len(s)}

\* all_files of initialize_progress_file, for the listings lr of REAL and lf
\* of FAKE
AllFiles(r, lr, lf) == AppendEligible(r, REAL, lr) \o AppendEligible(r, FAKE, lf)

NoImageTracking == [k \in {} |-> [status |-> "none", error |-> "none"]]

AbsentProgress == [st |-> "absent", chunks |-> <<>>, image_tracking |-> NoImageTracking]

\* progress_data as initialize_progress_file writes it
InitialProgress(r, lr, lf) ==
    [st |-> "ok", chunks |-> ChunksOf(sort(AllFiles(r, lr, lf))),
     image_tracking |-> NoImageTracking]

AbsentFeatures == [st |-> "absent", rows |-> {}]

\* The scan made whether or not PROGRESS_FILE exists.
ScanAlways(pf) == TRUE

\* not os.path.exists(PROGRESS_FILE)
ScanNeeded(pf) == pf.st = "absent"

\* 1 if 'FAKE' in filepath else 0
LabelOfPath(filepath) == IF Contains(filepath, FAKE) THEN 1 ELSE 0

\* completed_files
CompletedPaths(ff) == {row.filepath : row \in ff.rows}

\* str(e) of the exception process_image caught
ErrorTexts == {"cannot identify image file"}

Failed(text) == [status |-> "error", error |-> text]

NoScan == [made |-> FALSE, files |-> {}, listing |-> <<>>]

IdleRun == [pc |-> "idle", chunks |-> <<>>, image_tracking |-> NoImageTracking,
            all |-> {}, tasks |-> {}, pending |-> {}, newly |-> {}, failed |-> {},
            last |-> "none"]

PathsOnDisk == {JoinPath(root, e.dir, e.name) : e \in disk}

InitScan ==
    /\ root \in Roots
    /\ disk \in {S \in SUBSET Entries : Cardinality(S) <= MaxFiles}
    /\ changes = 0
    /\ progressFile = AbsentProgress
    /\ featuresFile = AbsentFeatures
    /\ scanned = NoScan
    /\ xrun = IdleRun

\* initialize_progress_file called on its own
InitializeProgressFile ==
    /\ xrun.pc = "idle"
    /\ IF ScanNeeded(progressFile)
       THEN \E lr \in Listings(disk, REAL) : \E lf \in Listings(disk, FAKE) :
               /\ progressFile' = InitialProgress(root, lr, lf)
               /\ scanned' = [made |-> TRUE, files |-> disk, listing |-> AllFiles(root, lr, lf)]
               /\ xrun' = [xrun EXCEPT !.last = "scanned"]
       ELSE /\ xrun' = [xrun EXCEPT !.last = "not scanned"]
            /\ UNCHANGED <<progressFile, scanned>>
    /\ UNCHANGED <<root, disk, changes, featuresFile>>
    /\ UNCHANGED avars
    /\ UNCHANGED mvars
    /\ UNCHANGED bvars
    /\ UNCHANGED tvars
    /\ UNCHANGED rvars
    /\ UNCHANGED fvars
    /\ UNCHANGED pvars
    /\ UNCHANGED cvars
    /\ UNCHANGED uvars

\* run_feature_extraction up to the submission of the tasks: the scan when
\* there is no PROGRESS_FILE, the two loads, the task list.
StartExtraction ==
    /\ xrun.pc = "idle"
    /\ \E lr \in Listings(disk, REAL) : \E lf \in Listings(disk, FAKE) :
         LET scan == ScanNeeded(progressFile)
             pf == IF scan THEN InitialProgress(root, lr, lf) ELSE progressFile
             t == {f \in Range(Flatten(pf.chunks)) : f \notin CompletedPaths(featuresFile)}
         IN  /\ progressFile' = pf
             /\ scanned' = IF scan
                           THEN [made |-> TRUE, files |-> disk,
                                 listing |-> AllFiles(root, lr, lf)]
                           ELSE scanned
             /\ xrun' = IF t = {}
                        THEN [IdleRun EXCEPT !.last = "nothing to process"]
                        ELSE [pc |-> "running", chunks |-> pf.chunks,
                              image_tracking |-> pf.image_tracking,
                              all |-> featuresFile.rows, tasks |-> t, pending |-> t,
                              newly |-> {}, failed |-> {}, last |-> "submitted"]
    /\ UNCHANGED <<root, disk, changes, featuresFile>>
    /\ UNCHANGED avars
    /\ UNCHANGED mvars
    /\ UNCHANGED bvars
    /\ UNCHANGED tvars
    /\ UNCHANGED rvars
    /\ UNCHANGED fvars
    /\ UNCHANGED pvars
    /\ UNCHANGED cvars
    /\ UNCHANGED uvars

\* One pass of `for future in as_completed(...)`: the result of one file,
\* its entry in image_tracking, its row, and the manifest written.  A file
\* that is no longer there cannot be opened.
HandleResult ==
    /\ xrun.pc = "running"
    /\ \E filepath \in xrun.pending :
       \E error \in {"none"} \cup ErrorTexts :
         LET file_key == clean_filename(basename(filepath))
             entry == IF error = "none" THEN [status |-> "completed", error |-> "none"] ELSE Failed(error)
             tracking == [k \in (DOMAIN xrun.image_tracking) \cup {file_key} |->
                             IF k = file_key THEN entry ELSE xrun.image_tracking[k]]
         IN  /\ (filepath \notin PathsOnDisk) => error # "none"
             /\ xrun' = [xrun EXCEPT
                    !.image_tracking = tracking,
                    !.pending = @ \ {filepath},
                    !.newly = IF error = "none"
                              THEN @ \cup {[filepath |-> filepath,
                                            label |-> LabelOfPath(filepath)]}
                              ELSE @,
                    !.failed = IF error = "none" THEN @
                               ELSE @ \cup {[filepath |-> filepath, error |-> error]}]
             /\ progressFile' = [st |-> "ok", chunks |-> xrun.chunks,
                                 image_tracking |-> tracking]
    /\ UNCHANGED <<root, disk, changes, featuresFile, scanned>>
    /\ UNCHANGED avars
    /\ UNCHANGED mvars
    /\ UNCHANGED bvars
    /\ UNCHANGED tvars
    /\ UNCHANGED rvars
    /\ UNCHANGED fvars
    /\ UNCHANGED pvars
    /\ UNCHANGED cvars
    /\ UNCHANGED uvars

\* After the loop: return when nothing was extracted, else joblib.dump of
\* the old and the new rows.
FinishExtraction ==
    /\ xrun.pc = "running"
    /\ xrun.pending = {}
    /\ featuresFile' = IF xrun.newly = {} THEN featuresFile
                       ELSE [st |-> "ok", rows |-> xrun.all \cup xrun.newly]
    /\ xrun' = [xrun EXCEPT !.pc = "idle", !.last = "finished"]
    /\ UNCHANGED <<root, disk, changes, progressFile, scanned>>
    /\ UNCHANGED avars
    /\ UNCHANGED mvars
    /\ UNCHANGED bvars
    /\ UNCHANGED tvars
    /\ UNCHANGED rvars
    /\ UNCHANGED fvars
    /\ UNCHANGED pvars
    /\ UNCHANGED cvars
    /\ UNCHANGED uvars

\* A file is added to the dataset.
AddFile ==
    /\ xrun.pc = "idle"
    /\ changes < MaxChanges
    /\ Cardinality(disk) < MaxFiles
    /\ \E e \in Entries \ disk : disk' = disk \cup {e}
    /\ changes' = changes + 1
    /\ UNCHANGED <<root, progressFile, featuresFile, scanned, xrun>>
    /\ UNCHANGED avars
    /\ UNCHANGED mvars
    /\ UNCHANGED bvars
    /\ UNCHANGED tvars
    /\ UNCHANGED rvars
    /\ UNCHANGED fvars
    /\ UNCHANGED pvars
    /\ UNCHANGED cvars
    /\ UNCHANGED uvars

\* A file is removed from the dataset.
RemoveFile ==
    /\ xrun.pc = "idle"
    /\ changes < MaxChanges
    /\ \E e \in disk : disk' = disk \ {e}
    /\ changes' = changes + 1
    /\ UNCHANGED <<root, progressFile, featuresFile, scanned, xrun>>
    /\ UNCHANGED avars
    /\ UNCHANGED mvars
    /\ UNCHANGED bvars
    /\ UNCHANGED tvars
    /\ UNCHANGED rvars
    /\ UNCHANGED fvars
    /\ UNCHANGED pvars
    /\ UNCHANGED cvars
    /\ UNCHANGED uvars

NextScan ==
    \/ InitializeProgressFile
    \/ StartExtraction
    \/ HandleResult
    \/ FinishExtraction
    \/ AddFile
    \/ RemoveFile

(***************************************************************************)
(* The detector tasks as they run: the pool starts the submitted tasks in   *)
(* submission order, Workers at a time, and a task ends when it ends,       *)
(* whatever the others do.  What each task will produce is fixed when the   *)
(* run starts: a finite score, NaN, an infinity, a value that is no number  *)
(* (None), a dict without its score field, or an exception.                 *)
(***************************************************************************)
Workers == 2

MaxOdd == 1

Finite(x) == [kind |-> "finite", v |-> x]

Zero == Finite(0)

\* What the task of a detector may produce.  run_rambino_analysis clips its
\* score to [0, 1], which leaves a NaN as it is; analyze_watermark returns
\* the mean of two scores between 0 and 1.
Products(name) ==
    IF name = "rambino" THEN {"finite", "nan", "raise"}
    ELSE IF name = "watermark" THEN {"finite", "raise"}
    ELSE {"finite", "nan", "inf", "none", "raise"}
             \cup (IF name \in ConfidenceDetectors \cup {"specialized_detector"}
                   THEN {"absent"} ELSE {})

\* One detector for each branch of the collection loops: the plain one, the
\* three special cases, and a detector whose result is a dict.
OddDetectors == {"ela", "rambino", "specialized_detector", "watermark", "deepfake"}

\* The plans of a run: at most MaxOdd of these tasks produce something else
\* than a finite score.
Plans(p) ==
    UNION {{[name \in Range(Futures(p)) |-> IF name \in odd THEN g[name] ELSE "finite"] :
               g \in {h \in [odd -> {"nan", "inf", "none", "raise", "absent"}] :
                         \A name \in odd : h[name] \in Products(name)}} :
           odd \in {S \in SUBSET (OddDetectors \cap Range(Futures(p))) :
                       Cardinality(S) <= MaxOdd}}

\* The score a task that returned carries: its own, or the default of
\* .get(field, 0.0) when the dict has no such field.
ScoreOf(name, product) ==
    IF product = "finite" THEN Finite(Score(name))
    ELSE IF product = "nan" THEN [kind |-> "nan", v |-> 0]
    ELSE IF product = "inf" THEN [kind |-> "inf", v |-> 0]
    ELSE IF product = "none" THEN [kind |-> "none", v |-> 0]
    ELSE Zero

\* future.result() taken without waiting for the task.
ResultReadyAtOnce(st) == TRUE

\* future.result() returns or raises once the task has ended
ResultReady(st) == st \in {"returned", "raised"}

\* The body of the collection loop for the future of `name`, in run_analysis
\* (p = "engine") and in extract_features_from_image_bytes (p = "extract").
StoreResult(p, res, name, st, product) ==
    LET raised == st # "returned" \/ product = "raise"
        key == IF name = "specialized_detector" /\ (p = "engine" \/ ~raised)
               THEN "specialized" ELSE name
        val == IF raised THEN Zero
               ELSE IF name \in ConfidenceDetectors
               THEN Dict(ScoreOf(name, product))
               ELSE ScoreOf(name, product)
    IN  Put(res, key, val)

\* results.get(k, {}).get('confidence', 0.0) / results.get(k, 0.0)
ReadScore(res, k) ==
    IF k \in ConfidenceDetectors
    THEN (IF k \in DOMAIN res THEN res[k].v ELSE Zero)
    ELSE Get(res, k, Zero)

\* .get on a float: AttributeError
ReadRaises(res) ==
    \E k \in ConfidenceDetectors : k \in DOMAIN res /\ res[k].kind # "dict"

\* The list with the scores in the order the results were stored.
MlFeaturesAsStored(p, res) ==
    [i \in 1..Len(ReadKeys(p)) |->
        ReadScore(res, IF Futures(p)[i] = "specialized_detector" THEN "specialized"
                       ELSE Futures(p)[i])]

\* ml_features
MlFeatures(p, res) == [i \in 1..Len(ReadKeys(p)) |-> ReadScore(res, ReadKeys(p)[i])]

\* np.isnan(f) raises TypeError on a value that is no number
IsnanRaises(vec) == \E i \in 1..Len(vec) : vec[i].kind = "none"

\* [0.0 if np.isnan(f) else f for f in ml_features], in run_analysis only
NanToZero(p, vec) ==
    IF p = "engine"
    THEN [i \in 1..Len(vec) |-> IF vec[i].kind = "nan" THEN Zero ELSE vec[i]]
    ELSE vec

InitFutures ==
    /\ upipe \in {"engine", "extract"}
    /\ plan \in Plans(upipe)
    /\ utask = [name \in Range(Futures(upipe)) |-> "queued"]
    /\ overtaken = FALSE
    /\ upc = "collect"
    /\ uidx = 0
    /\ ures = [k \in {} |-> Zero]
    /\ uvec = <<>>

\* A worker of the pool takes the next submitted task.
TaskStart ==
    /\ Cardinality({name \in DOMAIN utask : utask[name] = "running"}) < Workers
    /\ \E i \in 1..Len(Futures(upipe)) :
         /\ utask[Futures(upipe)[i]] = "queued"
         /\ \A j \in 1..(i - 1) : utask[Futures(upipe)[j]] # "queued"
         /\ utask' = [utask EXCEPT ![Futures(upipe)[i]] = "running"]
    /\ UNCHANGED <<upipe, plan, overtaken, upc, uidx, ures, uvec>>
    /\ UNCHANGED avars
    /\ UNCHANGED mvars
    /\ UNCHANGED bvars
    /\ UNCHANGED tvars
    /\ UNCHANGED rvars
    /\ UNCHANGED fvars
    /\ UNCHANGED pvars
    /\ UNCHANGED cvars
    /\ UNCHANGED svars

\* A running task returns or raises.
TaskEnd ==
    /\ \E i \in 1..Len(Futures(upipe)) :
         LET name == Futures(upipe)[i] IN
         /\ utask[name] = "running"
         /\ utask' = [utask EXCEPT ![name] = IF plan[name] = "raise" THEN "raised"
                                             ELSE "returned"]
         /\ overtaken' = (overtaken \/ \E j \in 1..(i - 1) :
                                           utask[Futures(upipe)[j]] = "running")
    /\ UNCHANGED <<upipe, plan, upc, uidx, ures, uvec>>
    /\ UNCHANGED avars
    /\ UNCHANGED mvars
    /\ UNCHANGED bvars
    /\ UNCHANGED tvars
    /\ UNCHANGED rvars
    /\ UNCHANGED fvars
    /\ UNCHANGED pvars
    /\ UNCHANGED cvars
    /\ UNCHANGED svars

\* One pass of `for name, future in futures.items()`: future.result() and
\* the assignment to results.
CollectResult ==
    /\ upc = "collect"
    /\ uidx < Len(Futures(upipe))
    /\ LET name == Futures(upipe)[uidx + 1] IN
         /\ ResultReady(utask[name])
         /\ ures' = StoreResult(upipe, ures, name, utask[name], plan[name])
    /\ uidx' = uidx + 1
    /\ upc' = IF uidx + 1 = Len(Futures(upipe)) THEN "assemble" ELSE "collect"
    /\ UNCHANGED <<upipe, plan, utask, overtaken, uvec>>
    /\ UNCHANGED avars
    /\ UNCHANGED mvars
    /\ UNCHANGED bvars
    /\ UNCHANGED tvars
    /\ UNCHANGED rvars
    /\ UNCHANGED fvars
    /\ UNCHANGED pvars
    /\ UNCHANGED cvars
    /\ UNCHANGED svars

\* After the loop: the scores read from results, the list ml_features, the
\* NaN replacement, and the vector handed on: to ml_predictor.predict by
\* run_analysis, to the caller by extract_features_from_image_bytes.
AssembleVector ==
    /\ upc = "assemble"
    /\ IF ReadRaises(ures) \/ (upipe = "engine" /\ IsnanRaises(MlFeatures(upipe, ures)))
       THEN /\ upc' = "raised"
            /\ uvec' = uvec
       ELSE /\ upc' = "handed"
            /\ uvec' = NanToZero(upipe, MlFeatures(upipe, ures))
    /\ UNCHANGED <<upipe, plan, utask, overtaken, uidx, ures>>
    /\ UNCHANGED avars
    /\ UNCHANGED mvars
    /\ UNCHANGED bvars
    /\ UNCHANGED tvars
    /\ UNCHANGED rvars
    /\ UNCHANGED fvars
    /\ UNCHANGED pvars
    /\ UNCHANGED cvars
    /\ UNCHANGED svars

NextFutures == TaskStart \/ TaskEnd \/ CollectResult \/ AssembleVector

(***************************************************************************)
(* The specifications.  A subsystem that a specification does not run is    *)
(* parked: its variables keep one fixed value.                              *)
(***************************************************************************)
ParkAnalysis ==
    /\ pipeline = "engine"
    /\ trainedBy = "bootstrap"
    /\ pc = "parked"
    /\ idx = 0
    /\ results = EmptyMap
    /\ raisedTasks = {}
    /\ features = NoVector

ParkModel ==
    /\ modelFile = AbsentFile
    /\ snapFile = AbsentFile
    /\ fbStore = <<>>
    /\ curModel = NoModel
    /\ engModel = NoModel
    /\ engineImported = FALSE
    /\ loadedOnce = FALSE
    /\ svcPc = "parked"
    /\ report = NoReport
    /\ lastOp = NoOp
    /\ inflight = NoModel
    /\ scriptPc = "parked"

ParkBatch ==
    /\ manifest = NoManifest
    /\ featFile = NoFeatures
    /\ bpc = "parked"
    /\ progress = NoProgress
    /\ loaded = NoFeatures
    /\ tasks = {}
    /\ pending = {}
    /\ newly = <<>>
    /\ runErrors = {}
    /\ recorded = {}
    /\ lastRun = NoRun

ParkTrain == call = NoCall

ParkTwoRuns ==
    /\ runs = [r \in Runners |-> [NotStarted EXCEPT !.pc = "parked"]]
    /\ written = [keys |-> {}, rows |-> {}]

ParkFeedbackStore ==
    /\ fbFiles = NoFiles
    /\ savers = [c \in Savers |-> [Idle EXCEPT !.pc = "parked"]]
    /\ saves = 0

ParkPreprocess ==
    /\ image = [w |-> 1, h |-> 1, decodes |-> FALSE, encodes |-> FALSE]
    /\ ppipe = "engine"
    /\ ppc = "parked"
    /\ processed = NoBytes
    /\ handed = <<>>

ParkClassify ==
    /\ scores = [m \in TestModules |-> None]
    /\ groundTruth = "real"
    /\ modulesRun = <<>>
    /\ cpc = "parked"
    /\ ci = 1
    /\ isFake = FALSE
    /\ verdict = NoVerdict

ParkScan ==
    /\ root = <<>>
    /\ disk = {}
    /\ changes = 0
    /\ progressFile = AbsentProgress
    /\ featuresFile = AbsentFeatures
    /\ scanned = NoScan
    /\ xrun = [IdleRun EXCEPT !.pc = "parked"]

ParkFutures ==
    /\ upipe = "engine"
    /\ plan = [name \in {} |-> "finite"]
    /\ utask = [name \in {} |-> "queued"]
    /\ overtaken = FALSE
    /\ upc = "parked"
    /\ uidx = 0
    /\ ures = [k \in {} |-> Zero]
    /\ uvec = <<>>

InitSpecAnalysis ==
    InitAnalysis /\ ParkModel /\ ParkBatch /\ ParkTrain /\ ParkTwoRuns /\ ParkFeedbackStore
    /\ ParkFutures
    /\ ParkScan
    /\ ParkClassify
    /\ ParkPreprocess

SpecAnalysis == InitSpecAnalysis /\ [][NextAnalysis]_vars

InitSpecModel ==
    InitModel /\ ParkAnalysis /\ ParkBatch /\ ParkTrain /\ ParkTwoRuns /\ ParkFeedbackStore
    /\ ParkFutures
    /\ ParkScan
    /\ ParkClassify
    /\ ParkPreprocess

SpecModel == InitSpecModel /\ [][NextModel]_vars

InitSpecBatch ==
    InitBatch /\ ParkAnalysis /\ ParkModel /\ ParkTrain /\ ParkTwoRuns /\ ParkFeedbackStore
    /\ ParkFutures
    /\ ParkScan
    /\ ParkClassify
    /\ ParkPreprocess

SpecBatch == InitSpecBatch /\ [][NextBatch]_vars

InitSpecTrain ==
    InitTrain /\ ParkAnalysis /\ ParkBatch /\ ParkTwoRuns /\ ParkFeedbackStore
    /\ ParkFutures
    /\ ParkScan
    /\ ParkClassify
    /\ ParkPreprocess

SpecTrain == InitSpecTrain /\ [][NextTrain]_vars

InitSpecTwoRuns ==
    InitTwoRuns /\ ParkAnalysis /\ ParkModel /\ ParkBatch /\ ParkTrain /\ ParkFeedbackStore
    /\ ParkFutures
    /\ ParkScan
    /\ ParkClassify
    /\ ParkPreprocess

SpecTwoRuns == InitSpecTwoRuns /\ [][NextTwoRuns]_vars

InitSpecFeedbackStore ==
    InitFeedbackStore /\ ParkAnalysis /\ ParkModel /\ ParkBatch /\ ParkTrain /\ ParkTwoRuns
    /\ ParkFutures
    /\ ParkScan
    /\ ParkClassify
    /\ ParkPreprocess

SpecFeedbackStore == InitSpecFeedbackStore /\ [][NextFeedbackStore]_vars

InitSpecPreprocess ==
    InitPreprocess /\ ParkAnalysis /\ ParkModel /\ ParkBatch /\ ParkTrain /\ ParkTwoRuns
    /\ ParkFutures
    /\ ParkScan
    /\ ParkClassify
    /\ ParkFeedbackStore

SpecPreprocess == InitSpecPreprocess /\ [][NextPreprocess]_vars

InitSpecClassify ==
    InitClassify /\ ParkAnalysis /\ ParkModel /\ ParkBatch /\ ParkTrain /\ ParkTwoRuns
    /\ ParkFutures
    /\ ParkScan
    /\ ParkFeedbackStore /\ ParkPreprocess

SpecClassify == InitSpecClassify /\ [][NextClassify]_vars

InitSpecScan ==
    InitScan /\ ParkAnalysis /\ ParkModel /\ ParkBatch /\ ParkTrain /\ ParkTwoRuns
    /\ ParkFutures
    /\ ParkFeedbackStore /\ ParkPreprocess /\ ParkClassify

SpecScan == InitSpecScan /\ [][NextScan]_vars

InitSpecFutures ==
    InitFutures /\ ParkAnalysis /\ ParkModel /\ ParkBatch /\ ParkTrain /\ ParkTwoRuns
    /\ ParkFeedbackStore /\ ParkPreprocess /\ ParkClassify /\ ParkScan

SpecFutures == InitSpecFutures /\ [][NextFutures]_vars

(***************************************************************************)
(* Claims about one analysis run.                                          *)
(***************************************************************************)
Terminal == {"returned", "raised"}

\* The task whose result the assembly reads under key k.
TaskOfKey(k) == IF k = "specialized" THEN "specialized_detector" ELSE k

\* The model in use accepts vectors of the width run_analysis builds.
ModelFitsEngine == pipeline = "extract" \/ TrainedWidth(trainedBy) = Len(EngineReadKeys)

\* C1: whichever detector tasks raise (the three 'confidence' detectors
\* included), the run completes, the raising detectors score 0.0 and every
\* other detector contributes exactly the score its own task returned.
C1_FailureIsolated ==
    (pc \in Terminal /\ raisedTasks # {} /\ ModelFitsEngine) =>
        /\ pc = "returned"
        /\ Len(features) = Len(ReadKeys(pipeline))
        /\ \A i \in 1..Len(ReadKeys(pipeline)) :
              LET task == TaskOfKey(ReadKeys(pipeline)[i]) IN
              features[i] = IF task \in raisedTasks THEN 0 ELSE Score(task)

\* C2: for every set of failing detector tasks a feature vector is built and
\* has exactly one element per submitted detector.
C2_FixedLength ==
    pc \in Terminal =>
        /\ features # NoVector
        /\ Len(features) = Len(Futures(pipeline))

\* C3: once the collection loop has consumed all futures, the outcome map
\* holds exactly one entry per submitted detector, under the key the feature
\* assembly reads for that detector.
C3_OutcomePerDetector ==
    pc # "collect" =>
        /\ DOMAIN results = {ReadKeys(pipeline)[i] : i \in 1..Len(ReadKeys(pipeline))}
        /\ Cardinality(DOMAIN results) = Len(Futures(pipeline))

\* C10: the vector extract_features_from_image_bytes computes for a training
\* sample has the length and the detector order of the vector run_analysis
\* passes to predict, so a trained model accepts the inference-time vector.
C10_SamePipeline ==
    /\ (pipeline = "extract" /\ pc = "returned") =>
          /\ Len(features) = Len(EngineReadKeys)
          /\ \A i \in 1..Len(EngineReadKeys) : ExtractReadKeys[i] = EngineReadKeys[i]
    /\ (pipeline = "engine" /\ pc \in Terminal /\ features # NoVector) => pc = "returned"

(***************************************************************************)
(* Claims about the model manager, feedback and retraining.                 *)
(***************************************************************************)
\* C4: once a feedback sample with corrected label 'real' is saved and the
\* handler has run the retraining (and the reload after it), the training
\* snapshot the retraining leaves on disk holds that sample with label 0.
C4_FeedbackInSnapshot ==
    (report.id > 0 /\ report.label = "real" /\ report.response \in {"success", "error"}) =>
        \E r \in report.snap.fb : r.id = report.id /\ r.label = 0

\* C28: whatever feedback submissions and retrainings have run, the training
\* snapshot on disk holds no feedback sample more than once.
C28_SampleOnceInSnapshot ==
    snapFile.st = "ok" => \A r \in snapFile.data.fb : r.copies = 1

\* C5: /report answers success once the sample is written, also when the
\* retraining or the reload after it fails.
C5_SuccessOnceSaved ==
    (report.id > 0 /\ svcPc = "idle") => report.response = "success"

\* C6: once a model has been loaded, no later predict sees a null model:
\* neither global is ever set back to None, whatever the reloads do.
C6_NeverNull ==
    /\ lastOp.op = "predict" => lastOp.saw = "model"
    /\ loadedOnce => (curModel # NoModel /\ curModel.width > 0)
    /\ engineImported => (engModel # NoModel /\ engModel.width > 0)

\* A predict served from the old model after the reload of a /report request
\* failed on a model file that was being rewritten.
C6_Witness ==
    /\ lastOp.op = "predict"
    /\ lastOp.saw = "model"
    /\ report.reload = "raised"

\* C7: with no model file on disk, get_model / load_model / reload_model run
\* a bootstrap training and end with a model loaded, whatever the feedback
\* store and the snapshot hold.
C7_BootstrapOnMissingModel ==
    (lastOp.op \in {"get_model", "load_model", "reload_model"} /\ lastOp.absent) =>
        /\ lastOp.bootstrap
        /\ ~lastOp.raised
        /\ curModel # NoModel

(***************************************************************************)
(* Claims about the batch extraction pipeline.                              *)
(***************************************************************************)
\* C8: a run started after an interruption submits no file whose status
\* "completed" was already written to the manifest.
C8_NoReprocessing == [][StartRun => (tasks' \cap recorded = {})]_vars

\* C9 as stated: a run started after a finished run submits no file and
\* leaves the feature store as it is, also when files ended in error.
C9_RerunProcessesNothing ==
    [][(StartRun /\ lastRun.end = "finished") =>
          (tasks' = {} /\ featFile' = featFile)]_vars

\* C9 as amended: a run started after a finished run submits exactly the
\* files whose extraction ended in error in that run; when there were none
\* it submits nothing, returns at once and leaves the feature store as it is.
C9_RerunSubmitsOnlyErrors ==
    [][(StartRun /\ lastRun.end = "finished") =>
          /\ tasks' = lastRun.errors
          /\ (lastRun.errors = {} => (featFile' = featFile /\ bpc' = "idle"))]_vars

\* A second run after a run that finished without errors over a non-empty
\* store: it submitted nothing.
C9_Witness ==
    /\ bpc = "idle"
    /\ lastRun.end = "finished"
    /\ lastRun.after = "finished"
    /\ lastRun.errors = {}
    /\ tasks = {}
    /\ featFile.st = "ok"
    /\ featFile.processed = Dataset

(***************************************************************************)
(* Claims about direct calls of the model manager.                          *)
(***************************************************************************)
\* C11: train_and_save_model called with labels of fewer than two classes
\* raises, writes neither the model file nor the training snapshot and
\* leaves the active model in place.
C11_FewerThanTwoClassesRejected ==
    (call.op = "train_and_save_model" /\ Cardinality(call.classes) < 2) =>
        /\ call.raised
        /\ modelFile = call.before.model
        /\ snapFile = call.before.snap
        /\ curModel = call.before.cur
        /\ engModel = call.before.eng

\* C12: predict called with a vector whose length differs from the feature
\* count of the active model raises an invalid-input error (ValueError) for
\* that request, and the model files and both in-memory models stay as they were.
C12_WrongLengthRejected ==
    (call.op = "predict" /\ call.veclen # call.before.eng.width) =>
        /\ call.raised
        /\ call.error = "ValueError"
        /\ modelFile = call.before.model
        /\ snapFile = call.before.snap
        /\ curModel = call.before.cur
        /\ engModel = call.before.eng

\* The 12-element vector of run_analysis rejected by a 13-feature model.
C12_Witness ==
    /\ call.op = "predict"
    /\ call.veclen = Len(EngineReadKeys)
    /\ engModel.width = Len(ExtractReadKeys)
    /\ call.error = "ValueError"

C14_FilesAlwaysComplete ==
    /\ manifest.st # "partial"
    /\ featFile.st # "partial"

\* The files of the last run whose result had been received.
Received == IF bpc = "idle" THEN lastRun.received ELSE tasks \ pending

\* C20: at every point of a run, and after a run was killed at any point,
\* at most one file whose result has been received has no status in the
\* manifest on disk.
C20_ManifestOneFileStale ==
    manifest.st # "absent" =>
        Cardinality({f \in Received : FileKey(f) \notin DOMAIN manifest.tracking}) <= 1

\* The files of chunk c of the manifest on disk.
ChunkFiles(c) == {manifest.chunks[c][i] : i \in 1..Len(manifest.chunks[c])}

\* C21: the feature store is rewritten after each chunk completes, so a crash
\* loses the vectors of at most one in-flight chunk: once every result of a
\* chunk has arrived and the run has gone on to record, in the manifest on
\* disk, a result of a later chunk, every file of the finished chunk whose
\* status "completed" was written has its vector in the feature store on disk.
C21_AtMostOneChunkLost ==
    manifest.st = "ok" =>
        \A c \in DOMAIN manifest.chunks : \A e \in DOMAIN manifest.chunks :
            (/\ c < e
             /\ ChunkFiles(c) \subseteq Received
             /\ \E g \in ChunkFiles(e) \cap Received :
                    FileKey(g) \in DOMAIN manifest.tracking)
            => \A f \in ChunkFiles(c) \cap recorded : f \in CompletedFiles(featFile)

\* C15: with two run_feature_extraction processes running at the same time
\* over the same manifest and feature store, every file status and every
\* extracted row one of them has written is still in the files on disk
\* after the writes of the other.
C15_NoLostUpdate ==
    /\ written.keys \subseteq DOMAIN manifest.tracking
    /\ written.rows \subseteq CompletedFiles(featFile)

(***************************************************************************)
(* Claims about the feedback store.                                         *)
(***************************************************************************)
\* C16: every save_feedback_image_and_label call creates a file that was not
\* there, under the directory of its label, and ends with its own bytes in
\* it; no step removes a file, hands a file to another call or changes a
\* file that was written: the store only grows.
C16_StoreOnlyGrows ==
    [][/\ \A p \in DOMAIN fbFiles :
             /\ p \in DOMAIN fbFiles'
             /\ fbFiles'[p].owner = fbFiles[p].owner
             /\ (fbFiles[p].state = "written" => fbFiles'[p] = fbFiles[p])
       /\ \A c \in Savers :
             LET path == <<savers[c].label, savers[c].name>> IN
             /\ (savers[c].pc = "named" /\ savers'[c].pc = "open") =>
                    (path \notin DOMAIN fbFiles /\ path \in DOMAIN fbFiles')
             /\ (savers[c].pc = "open" /\ savers'[c].pc = "idle") =>
                    fbFiles'[path] = [owner |-> savers[c].id, state |-> "written"]]_vars

\* Two calls at once under the same label, one file written and the other
\* just opened, and an earlier file still there.
C16_Witness ==
    /\ Cardinality(DOMAIN fbFiles) = MaxSaves
    /\ \E p, q \in DOMAIN fbFiles :
          /\ p # q
          /\ p[1] = q[1]
          /\ fbFiles[p].state = "written"
          /\ fbFiles[q].state = "empty"
    /\ \A c \in Savers : savers[c].pc # "idle"

(***************************************************************************)
(* Claims about preprocessing.                                              *)
(***************************************************************************)
\* C17 as stated: preprocessing raises nothing; when the bytes cannot be
\* decoded or resized every submitted task gets the input bytes, and when
\* they can, every submitted task gets the same re-encoded bytes.
C17_DecodedMeansReencoded ==
    ppc \in {"submit", "done"} =>
        /\ \A i \in 1..Len(handed) : handed[i] = processed
        /\ (~image.decodes \/ ResizeRaises(image.w, image.h)) => processed = InputBytes(image)
        /\ (image.decodes /\ ~ResizeRaises(image.w, image.h)) => processed.kind = "png"

\* C17 as amended: preprocessing raises nothing; when the bytes cannot be
\* decoded, resized or re-encoded as PNG every submitted task gets exactly
\* the input bytes, and when all three succeed every submitted task gets the
\* same re-encoded bytes.
C17_FallbackOnAnyFailure ==
    /\ ppc # "raised"
    /\ ppc \in {"submit", "done"} =>
          /\ \A i \in 1..Len(handed) : handed[i] = processed
          /\ TryBlockRaises(image) => processed = InputBytes(image)
          /\ ~TryBlockRaises(image) => processed.kind = "png"

\* All thirteen tasks of extract_features_from_image_bytes submitted with the
\* input bytes of an upload that does not decode.
C17_Witness ==
    /\ ppc = "done"
    /\ ppipe = "extract"
    /\ ~image.decodes
    /\ Len(handed) = Len(ExtractFutures)
    /\ handed[Len(handed)] = InputBytes(image)

\* The size the claim gives for an image of width w and height h.
ClaimedSize(w, h) ==
    LET long == IF w >= h THEN w ELSE h
        short == IF w >= h THEN h ELSE w
    IN  IF long <= 800 THEN <<w, h>>
        ELSE IF (short * 800) \div long >= 256
        THEN <<(w * 800) \div long, (h * 800) \div long>>
        ELSE <<(w * 256) \div short, (h * 256) \div short>>

\* C18: the engine's downsizing leaves an image whose longer edge is at most
\* 800 as it is and otherwise scales it to a longer edge of 800, or to a
\* shorter edge of 256 when that would fall below 256
\* (1920x1080 -> 800x450, 3000x600 -> 1280x256).
C18_AdaptiveDownsize ==
    (ppipe = "engine" /\ ppc = "done" /\ processed.kind = "png") =>
        <<processed.w, processed.h>> = ClaimedSize(image.w, image.h)

(***************************************************************************)
(* Claims about classify_image.                                             *)
(***************************************************************************)
ScoresOfRun == {scores[modulesRun[i]] : i \in 1..Len(modulesRun)}

\* C19: classify_image returns 'fake' exactly when a module of modules_run
\* scored above fake_min_score, 'real' when some module scored and none above
\* it, 'unknown' with is_correct False when no module scored; is_correct is
\* true exactly when the classification equals the ground truth.
C19_ClassifyUnknownWithoutScores ==
    cpc = "done" =>
        /\ verdict.classification = "fake" <=> (\E v \in ScoresOfRun : v # None /\ v > FakeMinScore)
        /\ ((ScoresOfRun \ {None} # {}) /\ (\A v \in ScoresOfRun \ {None} : v <= FakeMinScore))
              => verdict.classification = "real"
        /\ (ScoresOfRun \ {None} = {})
              => (verdict.classification = "unknown" /\ ~verdict.is_correct)
        /\ (ScoresOfRun \ {None} # {})
              => (verdict.is_correct <=> verdict.classification = groundTruth)

(***************************************************************************)
(* Claims about the dataset scan and the per-file bookkeeping.              *)
(***************************************************************************)
\* The file paths of the manifest on disk, in chunk order
ManifestPaths == Flatten(progressFile.chunks)

\* The eligible files among a set of directory entries, as paths
EligiblePaths(files) == {JoinPath(root, e.dir, e.name) : e \in {x \in files : Eligible(x.name)}}

\* The key under which the script files the status of filepath
KeyOf(filepath) == clean_filename(basename(filepath))

C23_ChunksPartitionSorted ==
    scanned.made =>
        /\ Range(ManifestPaths) = EligiblePaths(scanned.files)
        /\ \A i \in 1..Len(ManifestPaths) : \A j \in 1..Len(ManifestPaths) :
              i < j => StrLess(ManifestPaths[i], ManifestPaths[j])
        /\ \A c \in 1..Len(progressFile.chunks) :
              /\ Len(progressFile.chunks[c]) >= 1
              /\ Len(progressFile.chunks[c]) <= ChunkSize
              /\ c < Len(progressFile.chunks) => Len(progressFile.chunks[c]) = ChunkSize

\* A scan that met an ineligible file and got the eligible ones in an order
\* that is not the sorted one, with more files than one chunk holds.
C23_Witness ==
    /\ scanned.made
    /\ \E e \in scanned.files : ~Eligible(e.name)
    /\ \E i \in 1..Len(scanned.listing) : \E j \in 1..Len(scanned.listing) :
          i < j /\ StrLess(scanned.listing[j], scanned.listing[i])
    /\ Len(scanned.listing) > ChunkSize
    /\ Len(progressFile.chunks) > 1

\* C24: a file whose extraction failed in this run has status error with its
\* error text in the manifest and no row in the feature store or among the
\* rows of this run, and the run goes on with the other files.
C24_ErrorRecordedAndSkipped ==
    \A x \in xrun.failed :
        /\ KeyOf(x.filepath) \in DOMAIN progressFile.image_tracking
        /\ progressFile.image_tracking[KeyOf(x.filepath)] = Failed(x.error)
        /\ x.filepath \notin {row.filepath : row \in xrun.newly}
        /\ x.filepath \notin CompletedPaths(featuresFile)
        /\ xrun.pending # {} => xrun.pc = "running"

\* C29: distinct files of the manifest's chunks have distinct keys in
\* image_tracking.
C29_KeysDistinct ==
    \A f \in Range(ManifestPaths) : \A g \in Range(ManifestPaths) :
        f # g => KeyOf(f) # KeyOf(g)

\* The label directory a path of the dataset was scanned from
ScannedFrom(filepath) ==
    (CHOOSE e \in Entries : JoinPath(root, e.dir, e.name) = filepath).dir

\* C30: the label stored for a file is 1 exactly when it was scanned from the
\* FAKE directory and 0 exactly when it was scanned from the REAL directory.
C30_LabelFromDirectory ==
    \A row \in featuresFile.rows \cup xrun.newly :
        row.label = (IF ScannedFrom(row.filepath) = FAKE THEN 1 ELSE 0)

(***************************************************************************)
(* Claims about the detector tasks and the feature vector.                  *)
(***************************************************************************)
\* C25: every element of the feature vector handed to the classifier, by
\* run_analysis and by extract_features_from_image_bytes, is a finite real
\* number.
C25_VectorFinite ==
    upc = "handed" => \A i \in 1..Len(uvec) : uvec[i].kind = "finite"

\* C26: run_analysis builds the feature vector, and hands it to predict,
\* only when every submitted detector task has returned or raised.
C26_AllTasksEnded ==
    (upipe = "engine" /\ upc \in {"assemble", "handed", "raised"}) =>
        \A name \in DOMAIN utask : utask[name] \in {"returned", "raised"}

\* A vector handed to predict after a run in which a task raised and a task
\* ended before one submitted earlier.
C26_Witness ==
    /\ upipe = "engine"
    /\ upc = "handed"
    /\ overtaken
    /\ \E name \in DOMAIN utask : utask[name] = "raised"

\* The declared order of the detectors, by the names of their tasks
DeclaredOrder ==
    <<"ela", "cfa", "hos", "jpeg_ghost", "jpeg_dimples", "rambino", "geometric",
      "lighting", "specialized_detector", "deepfake", "reflection_inconsistency",
      "double_quantization">>

\* The score of a detector in this run: what its task returned, 0.0 when it
\* raised, gave no score or gave NaN
RunScore(name) ==
    IF plan[name] \in {"raise", "absent", "nan"} THEN Zero ELSE ScoreOf(name, plan[name])

\* C27: whatever the order in which the tasks ended, position i of the vector
\* run_analysis assembles holds the score of the i-th detector of the
\* declared order.
C27_PositionByDeclaredOrder ==
    (upipe = "engine" /\ upc = "handed") =>
        /\ Len(uvec) = Len(DeclaredOrder)
        /\ \A i \in 1..Len(DeclaredOrder) : uvec[i] = RunScore(DeclaredOrder[i])

\* A vector assembled from twelve finite scores whose tasks did not end in
\* submission order.
C27_Witness ==
    /\ upipe = "engine"
    /\ upc = "handed"
    /\ overtaken
    /\ \A name \in DOMAIN plan : plan[name] = "finite"
    /\ uvec[6] = Finite(Score("rambino"))

====
